---------------------------- MODULE Spec2Model ----------------------------
(***************************************************************************)
(* A model of go-chd: the CHD perfect-hash builder (ChdBuilder), the       *)
(* frozen hash (Chd) with its binary codec, and the constant database      *)
(* built on top of it (DBWriter / DBReader).                               *)
(*                                                                         *)
(* A uint64 is a sequence of 8 bytes, least significant byte first, so     *)
(* that the wrapping 64-bit arithmetic of rhash/mix/nextpow2 is computed   *)
(* exactly (the model checker's own integers are narrower than 64 bits).   *)
(***************************************************************************)
EXTENDS Integers, Sequences, FiniteSets, TLC

(***************************************************************************)
(* 64-bit words                                                            *)
(***************************************************************************)

\* Number of bytes of a uint64 and the values of one byte.
WordBytes == 8
Byte == 0..255

RECURSIVE BitXor(_, _, _)
BitXor(x, y, n) ==
    IF n = 0 THEN 0
    ELSE ((x + y) % 2) + 2 * BitXor(x \div 2, y \div 2, n - 1)

RECURSIVE BitOr(_, _, _)
BitOr(x, y, n) ==
    IF n = 0 THEN 0
    ELSE (IF (x % 2) + (y % 2) > 0 THEN 1 ELSE 0) + 2 * BitOr(x \div 2, y \div 2, n - 1)

RECURSIVE BitAnd(_, _, _)
BitAnd(x, y, n) ==
    IF n = 0 THEN 0
    ELSE ((x % 2) * (y % 2)) + 2 * BitAnd(x \div 2, y \div 2, n - 1)

\* Nibble tables of the three bitwise operators (^, |, &).  (f @@ <<>> is f,
\* tabulated once.)
XorTab == [x \in 0..15 |-> [y \in 0..15 |-> BitXor(x, y, 4)] @@ <<>>] @@ <<>>
OrTab == [x \in 0..15 |-> [y \in 0..15 |-> BitOr(x, y, 4)] @@ <<>>] @@ <<>>
AndTab == [x \in 0..15 |-> [y \in 0..15 |-> BitAnd(x, y, 4)] @@ <<>>] @@ <<>>

ByteXor(x, y) == 16 * XorTab[x \div 16][y \div 16] + XorTab[x % 16][y % 16]
ByteOr(x, y) == 16 * OrTab[x \div 16][y \div 16] + OrTab[x % 16][y % 16]
ByteAnd(x, y) == 16 * AndTab[x \div 16][y \div 16] + AndTab[x % 16][y % 16]

Xor64(a, b) ==
    <<ByteXor(a[1], b[1]), ByteXor(a[2], b[2]), ByteXor(a[3], b[3]),
      ByteXor(a[4], b[4]), ByteXor(a[5], b[5]), ByteXor(a[6], b[6]),
      ByteXor(a[7], b[7]), ByteXor(a[8], b[8])>>
Or64(a, b) ==
    <<ByteOr(a[1], b[1]), ByteOr(a[2], b[2]), ByteOr(a[3], b[3]),
      ByteOr(a[4], b[4]), ByteOr(a[5], b[5]), ByteOr(a[6], b[6]),
      ByteOr(a[7], b[7]), ByteOr(a[8], b[8])>>
And64(a, b) ==
    <<ByteAnd(a[1], b[1]), ByteAnd(a[2], b[2]), ByteAnd(a[3], b[3]),
      ByteAnd(a[4], b[4]), ByteAnd(a[5], b[5]), ByteAnd(a[6], b[6]),
      ByteAnd(a[7], b[7]), ByteAnd(a[8], b[8])>>

Zero64 == <<0, 0, 0, 0, 0, 0, 0, 0>>
Ones64 == <<255, 255, 255, 255, 255, 255, 255, 255>>

\* A natural number below 2^31 as a uint64.
RECURSIVE NatBytes(_, _)
NatBytes(n, len) ==
    IF len = 0 THEN <<>> ELSE <<n % 256>> \o NatBytes(n \div 256, len - 1)

U64(n) == NatBytes(n, WordBytes)

\* TRUE iff the word is below 2^24, so that it is a small natural number.
IsSmall(w) == \A i \in 4..WordBytes : w[i] = 0

\* The value of a small word.
ToNat(w) == w[1] + 256 * w[2] + 65536 * w[3]

\* Byte i (1-based) of a word extended by zeros above its top byte.
ByteAt(w, i) == IF i \in 1..WordBytes THEN w[i] ELSE 0

\* Byte i of w >> n
ShrByte(w, n, i) ==
    (ByteAt(w, i + (n \div 8)) \div (2 ^ (n % 8)))
        + (ByteAt(w, i + (n \div 8) + 1) % (2 ^ (n % 8))) * (2 ^ (8 - (n % 8)))

\* w >> n
Shr64(w, n) ==
    <<ShrByte(w, n, 1), ShrByte(w, n, 2), ShrByte(w, n, 3), ShrByte(w, n, 4),
      ShrByte(w, n, 5), ShrByte(w, n, 6), ShrByte(w, n, 7), ShrByte(w, n, 8)>>

\* Carry propagation over byte columns, dropping the carry out of byte 8.
RECURSIVE Carry(_, _, _)
Carry(cols, k, c) ==
    IF k > WordBytes THEN <<>>
    ELSE LET t == cols[k] + c
         IN <<t % 256>> \o Carry(cols, k + 1, t \div 256)

\* (a + b) mod 2^64
Add64(a, b) ==
    Carry(<<a[1] + b[1], a[2] + b[2], a[3] + b[3], a[4] + b[4],
            a[5] + b[5], a[6] + b[6], a[7] + b[7], a[8] + b[8]>>, 1, 0)

\* (a - b) mod 2^64, as a + ~b + 1
Sub64(a, b) ==
    Carry(<<a[1] + 255 - b[1], a[2] + 255 - b[2], a[3] + 255 - b[3],
            a[4] + 255 - b[4], a[5] + 255 - b[5], a[6] + 255 - b[6],
            a[7] + 255 - b[7], a[8] + 255 - b[8]>>, 1, 1)

RECURSIVE ColSum(_, _, _, _)
ColSum(a, b, k, i) ==
    IF i > k THEN 0 ELSE a[i] * b[k + 1 - i] + ColSum(a, b, k, i + 1)

\* (a * b) mod 2^64
Mul64(a, b) ==
    Carry(<<ColSum(a, b, 1, 1), ColSum(a, b, 2, 1), ColSum(a, b, 3, 1),
            ColSum(a, b, 4, 1), ColSum(a, b, 5, 1), ColSum(a, b, 6, 1),
            ColSum(a, b, 7, 1), ColSum(a, b, 8, 1)>>, 1, 0)

(***************************************************************************)
(* Bounds of the model                                                     *)
(***************************************************************************)

\* The keys callers use (a uint64 each; 64 is the offset of the first
\* record of a database, 57005 = 0xdead).
KeySet == {0, 1, 2, 3, 64, 57005}

\* The most keys a builder or writer is given.
MaxKeys == 3

\* The salts rand64() may return: 0 and 0xabcd1234baadf00d.
Salts == {Zero64, <<13, 240, 173, 186, 52, 18, 205, 171>>}

\* Load factors as fractions <<numerator, denominator>>:
\* -0.25, 0, 0.25, 0.5, 0.75, 0.9, 1, 1.25.
Loads == {<<0 - 1, 4>>, <<0, 4>>, <<1, 4>>, <<1, 2>>, <<3, 4>>, <<9, 10>>,
          <<1, 1>>, <<5, 4>>}

(***************************************************************************)
(* Hash primitive (chd.go)                                                 *)
(***************************************************************************)

\* 0x2127599bf4325c37, the multiplier of mix.
MixMul == <<55, 92, 50, 244, 155, 89, 39, 33>>

\* 0x880355f21e6d1965, the multiplier m of rhash.
HashMul == <<101, 25, 109, 30, 242, 85, 3, 136>>

\* h ^= h >> n
XorShr(h, n) == Xor64(h, Shr64(h, n))

\* mix: h ^= h >> 23; h *= 0x2127599bf4325c37; h ^= h >> 47
mix(h) == XorShr(Mul64(XorShr(h, 23), MixMul), 47)

\* The 64-bit hash of rhash before it is masked with sz - 1; seed and key
\* are words.
\*   h := key * m;  h ^= mix(salt);  h *= m;  h ^= mix(seed);  h *= m
\*   h  = mix(h)
hash64(seed, key, slt) ==
    mix(Mul64(Xor64(Mul64(Xor64(Mul64(key, HashMul), mix(slt)), HashMul),
                    mix(seed)), HashMul))

\* The seeds 0..MemoSeeds have their hashes tabulated.
MemoSeeds == 32

\* hash64 tabulated over the salts, the first seeds and the keys of the
\* model, so that each hash is computed once.
HashMemo ==
    [s \in Salts |->
        [seed \in 0..MemoSeeds |->
            [k \in KeySet |-> hash64(U64(seed), U64(k), s)] @@ <<>>] @@ <<>>] @@ <<>>

\* rhash: the hash of key (a number) under seed (a number) and salt (a
\* word), masked with sz - 1; sz - 1 wraps to 2^64 - 1 when sz = 0.  The
\* result is a word.
rhash(seed, key, sz, slt) ==
    And64(IF slt \in Salts /\ seed \in 0..MemoSeeds /\ key \in KeySet
          THEN HashMemo[slt][seed][key]
          ELSE hash64(U64(seed), U64(key), slt),
          Sub64(U64(sz), U64(1)))

\* nextpow2: n - 1 smeared to the right, plus one; all in wrapping arithmetic.
\*   n = n - 1;  n |= n >> 1; ... n |= n >> 32;  return n + 1
OrShr(n, k) == Or64(n, Shr64(n, k))

nextpow2(n) ==
    Add64(OrShr(OrShr(OrShr(OrShr(OrShr(OrShr(Sub64(n, U64(1)), 1), 2), 4), 8),
                      16), 32), U64(1))

(***************************************************************************)
(* Bit vector (bitvector.go): the set of the indices of its set bits       *)
(***************************************************************************)

newBitVector == {}
IsSet(b, i) == i \in b
Set(b, i) == b \cup {i}
Merge(b, x) == b \cup x

(***************************************************************************)
(* Seed tables (chd.go): u8Seeder, u16Seeder, u32Seeder                    *)
(***************************************************************************)

\* A seeder is its seed size in bytes and its seeds; a nil seeder has size 0.
NilSeeder == [size |-> 0, seeds |-> <<>>]

newU8(v) == [size |-> 1, seeds |-> [i \in 1..Len(v) |-> v[i] % 256]]
newU16(v) == [size |-> 2, seeds |-> [i \in 1..Len(v) |-> v[i] % 65536]]
newU32(v) == [size |-> 4, seeds |-> v]

\* makeSeeds taking the bounds of the seed sizes as inclusive.
makeSeedsInclusive(s, max) ==
    IF max <= 256 THEN newU8(s)
    ELSE IF max <= 65536 THEN newU16(s)
    ELSE newU32(s)

makeSeeds(s, max) ==
    IF max < 256 THEN newU8(s)
    ELSE IF max < 65536 THEN newU16(s)
    ELSE newU32(s)

\* Chd{}: no seeder and a zero salt.
ZeroChd == [seed |-> NilSeeder, salt |-> Zero64]

\* No Chd at all (a nil *Chd).
NoChd == [seed |-> [size |-> 0 - 1, seeds |-> <<>>], salt |-> Zero64]

\* Chd.Len and Chd.SeedSize
ChdLen(c) == Len(c.seed.seeds)
SeedSize(c) == c.seed.size

\* The outcome of a call that returns a uint64: a panic, or a value.
Panic == [panic |-> TRUE, val |-> 0]
Value(v) == [panic |-> FALSE, val |-> v]

\* Chd.Find: the seed of the key's bucket, then the key's cell under that
\* seed.  Indexing the seed table outside 0..m-1 (or a nil seeder) panics.
\* FindSeed counting the cells from 1.
FindSeedFromOne(c, k, h) ==
    IF ~IsSmall(h) \/ ToNat(h) >= ChdLen(c) THEN Panic
    ELSE Value(ToNat(rhash(c.seed.seeds[ToNat(h) + 1], k, ChdLen(c), c.salt)) + 1)

\* Find from the bucket h of the key on.
FindSeed(c, k, h) ==
    IF ~IsSmall(h) \/ ToNat(h) >= ChdLen(c) THEN Panic
    ELSE Value(ToNat(rhash(c.seed.seeds[ToNat(h) + 1], k, ChdLen(c), c.salt)))

Find(c, k) ==
    IF c.seed.size <= 0 THEN Panic
    ELSE FindSeed(c, k, rhash(0, k, ChdLen(c), c.salt))

(***************************************************************************)
(* ChdBuilder (chd.go)                                                     *)
(***************************************************************************)

\* number of times we will try to build the table: 65536 * 2
MaxSeed == 131072

\* The results of uint64(f) for an f that is +Inf or NaN (a division by a
\* zero load): the language leaves the value to the implementation; these
\* are 0, 2^63 and 2^64 - 1.
ConvOutOfRange == {Zero64, <<0, 0, 0, 0, 0, 0, 0, 128>>, Ones64}

\* TableLens rounding n / load up.
TableLensCeil(n, load) ==
    IF load[1] = 0 THEN {nextpow2(x) : x \in ConvOutOfRange}
    ELSE {nextpow2(U64((n * load[2] + load[1] - 1) \div load[1]))}

\* The table lengths m = nextpow2(uint64(float64(n) / load)) Freeze may
\* compute; the conversion to uint64 truncates.
TableLens(n, load) ==
    IF load[1] = 0 THEN {nextpow2(x) : x \in ConvOutOfRange}
    ELSE {nextpow2(U64((n * load[2]) \div load[1]))}

\* The keys of a set in increasing order.
RECURSIVE SortedSeq(_)
SortedSeq(S) ==
    IF S = {} THEN <<>>
    ELSE LET x == CHOOSE y \in S : \A z \in S : y <= z
         IN <<x>> \o SortedSeq(S \ {x})

\* The inner loop of Freeze over the keys ks[i..] of one bucket under seed
\* s: the cells of the keys (bOcc) if every key falls on a cell that is set
\* neither in occ nor in bOcc, and {-1} if some key does not.  TryKey is the
\* body of the loop for the key whose cell is h.
RECURSIVE TryKeys(_, _, _, _, _, _, _)
RECURSIVE TryKey(_, _, _, _, _, _, _, _)
\* TryKey testing the bucket's own cells only.
TryKeyOwnCells(ks, i, s, m, slt, occ, bOcc, h) ==
    IF IsSet(bOcc, h) THEN {0 - 1}
    ELSE TryKeys(ks, i + 1, s, m, slt, occ, Set(bOcc, h))

TryKey(ks, i, s, m, slt, occ, bOcc, h) ==
    IF IsSet(occ, h) \/ IsSet(bOcc, h) THEN {0 - 1}
    ELSE TryKeys(ks, i + 1, s, m, slt, occ, Set(bOcc, h))

TryKeys(ks, i, s, m, slt, occ, bOcc) ==
    IF i > Len(ks) THEN bOcc
    ELSE TryKey(ks, i, s, m, slt, occ, bOcc, ToNat(rhash(s, ks[i], m, slt)))

\* The seed loop of Freeze for one bucket: the first seed in s.._MaxSeed-1
\* under which the bucket's keys fit, with their cells; seed 0 if none does.
\* TrySeed is the end of the loop's body for seed s, bOcc what the inner
\* loop left.
RECURSIVE TrySeeds(_, _, _, _, _)
RECURSIVE TrySeed(_, _, _, _, _, _)
\* TrySeed going on with the seed after the next one.
TrySeedSkipsOne(ks, s, m, slt, occ, bOcc) ==
    IF bOcc = {0 - 1} THEN TrySeeds(ks, s + 2, m, slt, occ)
    ELSE [seed |-> s, cells |-> bOcc]

TrySeed(ks, s, m, slt, occ, bOcc) ==
    IF bOcc = {0 - 1} THEN TrySeeds(ks, s + 1, m, slt, occ)
    ELSE [seed |-> s, cells |-> bOcc]

TrySeeds(ks, s, m, slt, occ) ==
    IF s >= MaxSeed THEN [seed |-> 0, cells |-> {}]
    ELSE TrySeed(ks, s, m, slt, occ, TryKeys(ks, 1, s, m, slt, occ, newBitVector))

\* b.slot, set for the buckets that received a key only (an earlier form of
\* Freeze: b.slot = j next to the append of the key); the others keep 0.
BucketSlotOfKeys(bkeys, j) == IF Len(bkeys[j + 1]) > 0 THEN j ELSE 0

\* b.slot of the bucket made at index j: b.slot = uint64(i) for every
\* bucket, before the keys are dealt out and the buckets sorted.
BucketSlot(bkeys, j) == j

\* What the bucket loop leaves when it gives up: no table of seeds (a table
\* of seeds holds no 0: every bucket commits a seed >= 1).
NoSeeds == <<0>>

\* The bucket loop of Freeze over the sorted buckets order[i..]: the seeds
\* by slot, or NoSeeds when some bucket finds no seed.  bkeys[j + 1] are the
\* keys of the bucket made at index j, order the indices as sorted.
\* PlaceBucket is the end of the loop's body, t what the seed loop left.
RECURSIVE PlaceBuckets(_, _, _, _, _, _, _)
RECURSIVE PlaceBucket(_, _, _, _, _, _, _, _)
PlaceBucket(order, i, bkeys, m, slt, occ, seeds, t) ==
    IF t.seed = 0 THEN NoSeeds
    ELSE PlaceBuckets(order, i + 1, bkeys, m, slt, Merge(occ, t.cells),
                      [seeds EXCEPT ![BucketSlot(bkeys, order[i]) + 1] = t.seed])

PlaceBuckets(order, i, bkeys, m, slt, occ, seeds) ==
    IF i > Len(order) THEN seeds
    ELSE PlaceBucket(order, i, bkeys, m, slt, occ, seeds,
                     TrySeeds(bkeys[order[i] + 1], 1, m, slt, occ))

\* The orders sort.Sort may leave the buckets in: every arrangement of the
\* slots in which the number of keys never increases.
RECURSIVE SortedOrders(_, _)
SortedOrders(slots, bkeys) ==
    IF slots = {} THEN {<<>>}
    ELSE UNION {{<<j>> \o o : o \in SortedOrders(slots \ {j}, bkeys)} :
                   j \in {j \in slots : \A l \in slots :
                             Len(bkeys[j + 1]) >= Len(bkeys[l + 1])}}

RECURSIVE SeqMax(_, _)
SeqMax(q, i) ==
    IF i > Len(q) THEN 0
    ELSE LET r == SeqMax(q, i + 1) IN IF q[i] > r THEN q[i] ELSE r

\* The outcome of Freeze: an error ("nil" for none) and the Chd returned.
Failed(e) == [err |-> e, chd |-> NoChd]
Frozen(seeds, slt) ==
    IF seeds = NoSeeds THEN Failed("nomph")
    ELSE [err |-> "nil",
          chd |-> [seed |-> makeSeeds(seeds, SeqMax(seeds, 1)), salt |-> slt]]

\* The keys of each of the m buckets: bucket j holds the keys k with
\* rhash(0, k, m, salt) = j.
Buckets(keys, slt, m) ==
    [j \in 1..m |-> SortedSeq({k \in keys : ToNat(rhash(0, k, m, slt)) = j - 1})] @@ <<>>

\* The slots of the buckets that hold keys, and of those that hold none.
FullSlots(bkeys) == {j \in 0..(Len(bkeys) - 1) : Len(bkeys[j + 1]) > 0}
EmptySlots(bkeys) == {j \in 0..(Len(bkeys) - 1) : Len(bkeys[j + 1]) = 0}

\* Freeze from the sort of the buckets on.  The nonempty buckets are taken
\* in every sorted order; the empty ones follow (an empty bucket commits
\* seed 1 and touches no cell, so their order changes nothing).
FreezeBuckets(bkeys, slt) ==
    {Frozen(PlaceBuckets(o \o SortedSeq(EmptySlots(bkeys)), 1, bkeys, Len(bkeys),
                         slt, newBitVector, [j \in 1..Len(bkeys) |-> 0] @@ <<>>),
            slt) : o \in SortedOrders(FullSlots(bkeys), bkeys)}

\* Freeze from the allocation of the m buckets on.  Allocating 2^24 buckets
\* or more panics (this happens only for a zero load); with m = 0 the first
\* key indexes an empty bucket array and panics.
FreezeTable(keys, slt, m) ==
    IF ~IsSmall(m) THEN {Failed("panic")}
    ELSE IF ToNat(m) = 0 /\ keys # {} THEN {Failed("panic")}
    ELSE FreezeBuckets(Buckets(keys, slt, ToNat(m)), slt)

\* load < 0 || load > 1
InvalidLoad(load) == load[1] < 0 \/ load[1] > load[2]

\* ChdBuilder.Freeze: every outcome it may have.
FreezeOutcomes(keys, slt, load) ==
    IF InvalidLoad(load) THEN {Failed("invalid")}
    ELSE UNION {FreezeTable(keys, slt, m) : m \in TableLens(Cardinality(keys), load)}

\* AddKey overwriting a key that is present.
AddKeyOverwrite(keys, key) == [err |-> "nil", data |-> keys \cup {key}]

\* ChdBuilder.Add: the error returned and the key set left.
AddKey(keys, key) ==
    IF key \in keys THEN [err |-> "duplicate", data |-> keys]
    ELSE [err |-> "nil", data |-> keys \cup {key}]

(***************************************************************************)
(* The binary form of a Chd (chd.go, mmap.go)                              *)
(***************************************************************************)

\* The byte orders of the hosts the code is built for.
Hosts == {"little", "big"}

\* The seeds of the Chds that are marshalled: 255, 256 and 65536 are where
\* makeSeeds changes the seed size.
CodecSeeds == {1, 255, 256, 513, 65536}

RECURSIVE Reverse(_)
Reverse(q) == IF q = <<>> THEN <<>> ELSE Reverse(Tail(q)) \o <<Head(q)>>

\* The number whose bytes, least significant first, are q.
RECURSIVE LEValue(_)
LEValue(q) == IF q = <<>> THEN 0 ELSE Head(q) + 256 * LEValue(Tail(q))

\* The w bytes an unsigned integer v of w bytes has in the memory of the
\* host, and the integer that bytes in the memory of the host are.
NativeBytes(v, w, host) ==
    IF host = "little" THEN NatBytes(v, w) ELSE Reverse(NatBytes(v, w))
NativeValue(q, host) ==
    IF host = "little" THEN LEValue(q) ELSE LEValue(Reverse(q))

\* u16sToByteSlice, u32sToByteSlice (and the []byte of a u8Seeder): the
\* memory of a slice of integers of w bytes each, as bytes.
RECURSIVE ToByteSlice(_, _, _)
ToByteSlice(v, w, host) ==
    IF v = <<>> THEN <<>>
    ELSE NativeBytes(Head(v), w, host) \o ToByteSlice(Tail(v), w, host)

\* FromByteSlice reading every integer least significant byte first.
FromByteSliceLE(b, w, host) ==
    [i \in 1..(Len(b) \div w) |->
        LEValue(SubSeq(b, (i - 1) * w + 1, i * w))] @@ <<>>

\* bsToUint16Slice, bsToUint32Slice: the memory of a byte slice as
\* len(b) / w integers of w bytes each.
FromByteSlice(b, w, host) ==
    [i \in 1..(Len(b) \div w) |->
        NativeValue(SubSeq(b, (i - 1) * w + 1, i * w), host)] @@ <<>>

\* binary.LittleEndian.PutUint64 and binary.LittleEndian.Uint64
PutUint64(v) ==
    <<Shr64(v, 0)[1], Shr64(v, 8)[1], Shr64(v, 16)[1], Shr64(v, 24)[1],
      Shr64(v, 32)[1], Shr64(v, 40)[1], Shr64(v, 48)[1], Shr64(v, 56)[1]>>
Uint64(b) == <<b[1], b[2], b[3], b[4], b[5], b[6], b[7], b[8]>>

ChdHeaderSize == 16

\* Chd.MarshalBinary: what it writes to w, an io.Writer that takes every
\* byte.  Header: version 1, the seed size, 6 bytes of 0, the salt; then
\* the seeds.
MarshalBinary(c, host) ==
    <<1, SeedSize(c), 0, 0, 0, 0, 0, 0>> \o PutUint64(c.salt)
        \o ToByteSlice(c.seed.seeds, SeedSize(c), host)

\* A byte slice: its backing array from the slice's first byte on (mem,
\* cap(buf) bytes) and its length.
Slice(mem, len) == [mem |-> mem, len |-> len]
NoSlice == Slice(<<>>, 0)

\* The outcome of UnmarshalBinaryMmap: an error ("nil" for none, "panic"
\* for a run-time panic) and the receiver as it is left.
Unmarshalled(e, c) == [err |-> e, chd |-> c]

\* UnmarshalBinaryMmap from `vals := buf[_ChdHeaderSize:]` on.
UnmarshalSeeds(c, buf, host, size) ==
    IF buf.len < ChdHeaderSize THEN Unmarshalled("panic", c)
    ELSE IF size \notin {1, 2, 4} THEN Unmarshalled("seedsize", c)
    ELSE IF (buf.len - ChdHeaderSize) % size # 0 THEN Unmarshalled("partial", c)
    ELSE Unmarshalled("nil",
            [seed |-> [size |-> size,
                       seeds |-> FromByteSlice(SubSeq(buf.mem, ChdHeaderSize + 1, buf.len),
                                               size, host)],
             salt |-> Uint64(SubSeq(buf.mem, 9, ChdHeaderSize))])

\* Chd.UnmarshalBinaryMmap(buf) on the receiver c.  buf[:16] panics when
\* cap(buf) < 16, and buf[16:] when len(buf) < 16.
UnmarshalBinaryMmap(c, buf, host) ==
    IF Len(buf.mem) < ChdHeaderSize THEN Unmarshalled("panic", c)
    ELSE IF buf.mem[1] # 1 THEN Unmarshalled("version", c)
    ELSE UnmarshalSeeds(c, buf, host, buf.mem[2])

(***************************************************************************)
(* Checksums: SipHash-2-4 (github.com/dchest/siphash) over a record and    *)
(* SHA-512/256 (crypto/sha512) over the meta-data, computed bit for bit    *)
(***************************************************************************)

\* Byte i of w rotated right by n bits
RotrByte(w, n, i) ==
    (w[((i - 1 + (n \div 8)) % 8) + 1] \div (2 ^ (n % 8)))
        + (w[((i + (n \div 8)) % 8) + 1] % (2 ^ (n % 8))) * (2 ^ (8 - (n % 8)))

\* w rotated right, and left, by n bits
Rotr64(w, n) ==
    <<RotrByte(w, n, 1), RotrByte(w, n, 2), RotrByte(w, n, 3), RotrByte(w, n, 4),
      RotrByte(w, n, 5), RotrByte(w, n, 6), RotrByte(w, n, 7), RotrByte(w, n, 8)>>
Rotl64(w, n) == Rotr64(w, 64 - n)

\* (a + b + c + d + e) mod 2^64
Sum64(a, b, c, d, e) ==
    Carry(<<a[1] + b[1] + c[1] + d[1] + e[1], a[2] + b[2] + c[2] + d[2] + e[2],
            a[3] + b[3] + c[3] + d[3] + e[3], a[4] + b[4] + c[4] + d[4] + e[4],
            a[5] + b[5] + c[5] + d[5] + e[5], a[6] + b[6] + c[6] + d[6] + e[6],
            a[7] + b[7] + c[7] + d[7] + e[7], a[8] + b[8] + c[8] + d[8] + e[8]>>,
          1, 0)

\* The initial state of SipHash under the key <<k0, k1>>: the key xored
\* into "somepseu", "dorandom", "lygenera", "tedbytes".
SipInit(k0, k1) ==
    <<Xor64(k0, <<117, 101, 115, 112, 101, 109, 111, 115>>),
      Xor64(k1, <<109, 111, 100, 110, 97, 114, 111, 100>>),
      Xor64(k0, <<97, 114, 101, 110, 101, 103, 121, 108>>),
      Xor64(k1, <<115, 101, 116, 121, 98, 100, 101, 116>>)>>

\* One SipRound on the state v = <<v0, v1, v2, v3>>, in its four steps:
\*   v0 += v1; v2 += v3
\*   v1 = rotl(v1, 13) ^ v0; v3 = rotl(v3, 16) ^ v2; v0 = rotl(v0, 32)
\*   v0 += v3; v2 += v1
\*   v3 = rotl(v3, 21) ^ v0; v1 = rotl(v1, 17) ^ v2; v2 = rotl(v2, 32)
SipStep1(v) == <<Add64(v[1], v[2]), v[2], Add64(v[3], v[4]), v[4]>>
SipStep2(v) ==
    <<Rotl64(v[1], 32), Xor64(Rotl64(v[2], 13), v[1]), v[3],
      Xor64(Rotl64(v[4], 16), v[3])>>
SipStep3(v) == <<Add64(v[1], v[4]), v[2], Add64(v[3], v[2]), v[4]>>
SipStep4(v) ==
    <<v[1], Xor64(Rotl64(v[2], 17), v[3]), Rotl64(v[3], 32),
      Xor64(Rotl64(v[4], 21), v[1])>>
SipRound(v) == SipStep4(SipStep3(SipStep2(SipStep1(v))))

\* n rounds: vs holds the state before the first round and after each
\* round so far.
RECURSIVE SipRounds(_, _)
SipRounds(vs, n) ==
    IF Len(vs) > n THEN vs[n + 1]
    ELSE SipRounds(Append(vs, SipRound(vs[Len(vs)])), n)

\* One 8-byte block m of the message: v3 ^= m; two rounds; v0 ^= m
SipXor3(v, m) == <<v[1], v[2], v[3], Xor64(v[4], m)>>
SipXor0(v, m) == <<Xor64(v[1], m), v[2], v[3], v[4]>>
SipBlock(v, m) == SipXor0(SipRounds(<<SipXor3(v, m)>>, 2), m)

\* The last block: the bytes left over, zeros, and the length mod 256.
SipLast(msg) ==
    [i \in 1..8 |->
        IF i = 8 THEN Len(msg) % 256
        ELSE IF 8 * (Len(msg) \div 8) + i <= Len(msg)
             THEN msg[8 * (Len(msg) \div 8) + i]
             ELSE 0] @@ <<>>

\* The blocks of the message from byte o on, the last one included.
RECURSIVE SipBlocks(_, _, _)
SipBlocks(v, msg, o) ==
    IF o + 8 > Len(msg) THEN SipBlock(v, SipLast(msg))
    ELSE SipBlocks(SipBlock(v, SubSeq(msg, o + 1, o + 8)), msg, o + 8)

\* Finalisation: v2 ^= 0xff; four rounds; v0 ^ v1 ^ v2 ^ v3
SipXor2(v) == <<v[1], v[2], Xor64(v[3], U64(255)), v[4]>>
SipFinal(v) == Xor64(Xor64(v[1], v[2]), Xor64(v[3], v[4]))

\* siphash.New(key); Write(msg); Sum64(): a word.  key is 16 bytes.
SipHash(key, msg) ==
    SipFinal(SipRounds(<<SipXor2(SipBlocks(SipInit(SubSeq(key, 1, 8),
                                                    SubSeq(key, 9, 16)),
                                            msg, 0))>>, 4))

\* The initial hash value of SHA-512/256 and the round constants of SHA-512.
ShaIV ==
    <<<<44, 247, 43, 252, 148, 33, 49, 34>>,
      <<194, 100, 76, 200, 163, 95, 85, 159>>,
      <<81, 177, 83, 111, 107, 184, 147, 35>>,
      <<189, 234, 64, 89, 25, 119, 56, 150>>,
      <<227, 255, 142, 168, 226, 62, 40, 150>>,
      <<146, 57, 134, 83, 37, 30, 94, 190>>,
      <<170, 184, 133, 44, 252, 153, 1, 43>>,
      <<162, 44, 197, 129, 220, 45, 183, 14>>>>
ShaK ==
    <<<<34, 174, 40, 215, 152, 47, 138, 66>>,
      <<205, 101, 239, 35, 145, 68, 55, 113>>,
      <<47, 59, 77, 236, 207, 251, 192, 181>>,
      <<188, 219, 137, 129, 165, 219, 181, 233>>,
      <<56, 181, 72, 243, 91, 194, 86, 57>>,
      <<25, 208, 5, 182, 241, 17, 241, 89>>,
      <<155, 79, 25, 175, 164, 130, 63, 146>>,
      <<24, 129, 109, 218, 213, 94, 28, 171>>,
      <<66, 2, 3, 163, 152, 170, 7, 216>>,
      <<190, 111, 112, 69, 1, 91, 131, 18>>,
      <<140, 178, 228, 78, 190, 133, 49, 36>>,
      <<226, 180, 255, 213, 195, 125, 12, 85>>,
      <<111, 137, 123, 242, 116, 93, 190, 114>>,
      <<177, 150, 22, 59, 254, 177, 222, 128>>,
      <<53, 18, 199, 37, 167, 6, 220, 155>>,
      <<148, 38, 105, 207, 116, 241, 155, 193>>,
      <<210, 74, 241, 158, 193, 105, 155, 228>>,
      <<227, 37, 79, 56, 134, 71, 190, 239>>,
      <<181, 213, 140, 139, 198, 157, 193, 15>>,
      <<101, 156, 172, 119, 204, 161, 12, 36>>,
      <<117, 2, 43, 89, 111, 44, 233, 45>>,
      <<131, 228, 166, 110, 170, 132, 116, 74>>,
      <<212, 251, 65, 189, 220, 169, 176, 92>>,
      <<181, 83, 17, 131, 218, 136, 249, 118>>,
      <<171, 223, 102, 238, 82, 81, 62, 152>>,
      <<16, 50, 180, 45, 109, 198, 49, 168>>,
      <<63, 33, 251, 152, 200, 39, 3, 176>>,
      <<228, 14, 239, 190, 199, 127, 89, 191>>,
      <<194, 143, 168, 61, 243, 11, 224, 198>>,
      <<37, 167, 10, 147, 71, 145, 167, 213>>,
      <<111, 130, 3, 224, 81, 99, 202, 6>>,
      <<112, 110, 14, 10, 103, 41, 41, 20>>,
      <<252, 47, 210, 70, 133, 10, 183, 39>>,
      <<38, 201, 38, 92, 56, 33, 27, 46>>,
      <<237, 42, 196, 90, 252, 109, 44, 77>>,
      <<223, 179, 149, 157, 19, 13, 56, 83>>,
      <<222, 99, 175, 139, 84, 115, 10, 101>>,
      <<168, 178, 119, 60, 187, 10, 106, 118>>,
      <<230, 174, 237, 71, 46, 201, 194, 129>>,
      <<59, 53, 130, 20, 133, 44, 114, 146>>,
      <<100, 3, 241, 76, 161, 232, 191, 162>>,
      <<1, 48, 66, 188, 75, 102, 26, 168>>,
      <<145, 151, 248, 208, 112, 139, 75, 194>>,
      <<48, 190, 84, 6, 163, 81, 108, 199>>,
      <<24, 82, 239, 214, 25, 232, 146, 209>>,
      <<16, 169, 101, 85, 36, 6, 153, 214>>,
      <<42, 32, 113, 87, 133, 53, 14, 244>>,
      <<184, 209, 187, 50, 112, 160, 106, 16>>,
      <<200, 208, 210, 184, 22, 193, 164, 25>>,
      <<83, 171, 65, 81, 8, 108, 55, 30>>,
      <<153, 235, 142, 223, 76, 119, 72, 39>>,
      <<168, 72, 155, 225, 181, 188, 176, 52>>,
      <<99, 90, 201, 197, 179, 12, 28, 57>>,
      <<203, 138, 65, 227, 74, 170, 216, 78>>,
      <<115, 227, 99, 119, 79, 202, 156, 91>>,
      <<163, 184, 178, 214, 243, 111, 46, 104>>,
      <<252, 178, 239, 93, 238, 130, 143, 116>>,
      <<96, 47, 23, 67, 111, 99, 165, 120>>,
      <<114, 171, 240, 161, 20, 120, 200, 132>>,
      <<236, 57, 100, 26, 8, 2, 199, 140>>,
      <<40, 30, 99, 35, 250, 255, 190, 144>>,
      <<233, 189, 130, 222, 235, 108, 80, 164>>,
      <<21, 121, 198, 178, 247, 163, 249, 190>>,
      <<43, 83, 114, 227, 242, 120, 113, 198>>,
      <<156, 97, 38, 234, 206, 62, 39, 202>>,
      <<7, 194, 192, 33, 199, 184, 134, 209>>,
      <<30, 235, 224, 205, 214, 125, 218, 234>>,
      <<120, 209, 110, 238, 127, 79, 125, 245>>,
      <<186, 111, 23, 114, 170, 103, 240, 6>>,
      <<166, 152, 200, 162, 197, 125, 99, 10>>,
      <<174, 13, 249, 190, 4, 152, 63, 17>>,
      <<27, 71, 28, 19, 53, 11, 113, 27>>,
      <<132, 125, 4, 35, 245, 119, 219, 40>>,
      <<147, 36, 199, 64, 123, 171, 202, 50>>,
      <<188, 190, 201, 21, 10, 190, 158, 60>>,
      <<76, 13, 16, 156, 196, 103, 29, 67>>,
      <<182, 66, 62, 203, 190, 212, 197, 76>>,
      <<42, 126, 101, 252, 156, 41, 127, 89>>,
      <<236, 250, 214, 58, 171, 111, 203, 95>>,
      <<23, 88, 71, 74, 140, 25, 68, 108>>>>

BigSigma0(x) == Xor64(Xor64(Rotr64(x, 28), Rotr64(x, 34)), Rotr64(x, 39))
BigSigma1(x) == Xor64(Xor64(Rotr64(x, 14), Rotr64(x, 18)), Rotr64(x, 41))
SmallSigma0(x) == Xor64(Xor64(Rotr64(x, 1), Rotr64(x, 8)), Shr64(x, 7))
SmallSigma1(x) == Xor64(Xor64(Rotr64(x, 19), Rotr64(x, 61)), Shr64(x, 6))
Ch(e, f, g) == Xor64(And64(e, f), And64(Xor64(e, Ones64), g))
Maj(a, b, c) == Xor64(Xor64(And64(a, b), And64(a, c)), And64(b, c))

\* The message schedule: w holds the words so far, 80 in the end.
RECURSIVE ShaSchedule(_)
ShaSchedule(w) ==
    IF Len(w) >= 80 THEN w
    ELSE ShaSchedule(Append(w, Sum64(SmallSigma1(w[Len(w) - 1]), w[Len(w) - 6],
                                     SmallSigma0(w[Len(w) - 14]), w[Len(w) - 15],
                                     Zero64)))

\* One round on s = <<a, b, c, d, e, f, g, h>>, t1 being
\* h + Sigma1(e) + Ch(e, f, g) + K[t] + w[t].
ShaStep(s, t1) ==
    <<Sum64(t1, BigSigma0(s[1]), Maj(s[1], s[2], s[3]), Zero64, Zero64),
      s[1], s[2], s[3], Add64(s[4], t1), s[5], s[6], s[7]>>

\* The 80 rounds: ss holds the working variables before the first round
\* and after each round so far.
RECURSIVE ShaRounds(_, _)
ShaRounds(ss, w) ==
    IF Len(ss) > 80 THEN ss[81]
    ELSE ShaRounds(Append(ss, ShaStep(ss[Len(ss)],
                                      Sum64(ss[Len(ss)][8], BigSigma1(ss[Len(ss)][5]),
                                            Ch(ss[Len(ss)][5], ss[Len(ss)][6],
                                               ss[Len(ss)][7]),
                                            ShaK[Len(ss)], w[Len(ss)]))),
                   w)

\* The 16 words of a block of 128 bytes, most significant byte first.
ShaWords(b) ==
    [i \in 1..16 |-> [j \in 1..8 |-> b[8 * i + 1 - j]] @@ <<>>] @@ <<>>

\* The hash value after one more block.
ShaAdd(h, s) == [i \in 1..8 |-> Add64(h[i], s[i])] @@ <<>>
ShaBlock(h, b) == ShaAdd(h, ShaRounds(<<h>>, ShaSchedule(ShaWords(b))))

\* The message padded: 0x80, zeros up to 112 mod 128 bytes, and the length
\* in bits as 16 bytes, most significant first (lengths are below 2^24).
ShaPad(msg) ==
    msg \o <<128>> \o [i \in 1..((239 - (Len(msg) % 128)) % 128) |-> 0]
        \o [i \in 1..12 |-> 0] \o Reverse(NatBytes(8 * Len(msg), 4))

RECURSIVE ShaBlocks(_, _, _)
ShaBlocks(h, m, o) ==
    IF o >= Len(m) THEN h
    ELSE ShaBlocks(ShaBlock(h, SubSeq(m, o + 1, o + 128)), m, o + 128)

\* The first 32 bytes of the hash value h, each word most significant byte
\* first.
ShaBytes(h) ==
    [i \in 1..32 |-> h[((i - 1) \div 8) + 1][8 - ((i - 1) % 8)]] @@ <<>>

\* sha512.New512_256(); Write(msg); Sum(nil)
Sum512_256(msg) == ShaBytes(ShaBlocks(ShaIV, ShaPad(msg), 0))

(***************************************************************************)
(* The constant database: DBWriter (dbwriter.go), DBReader (dbreader.go)   *)
(*                                                                         *)
(* A file is the sequence of its bytes.                                    *)
(***************************************************************************)

\* os.Getpagesize()
PageSize == 4096

\* No file at a path.
NoFile == <<0 - 1>>

\* n zero bytes
Zeros(n) == [i \in 1..n |-> 0] @@ <<>>

\* binary.BigEndian.PutUint64 and binary.BigEndian.Uint64: the 8 bytes of a
\* word, most significant first, and the word of such 8 bytes.
BigEndian(v) == Reverse(v)

\* A uint64 as it lies in the memory of the host, and back.
NativeWord(v, host) == IF host = "little" THEN v ELSE Reverse(v)

\* u64sToByteSlice, bsToUint64Slice: the memory of a slice of words as
\* bytes, and the memory of a byte slice as len(b) / 8 words.
u64sToByteSlice(v, host) ==
    [i \in 1..(8 * Len(v)) |->
        NativeWord(v[((i - 1) \div 8) + 1], host)[((i - 1) % 8) + 1]] @@ <<>>
bsToUint64Slice(b, host) ==
    [i \in 1..(Len(b) \div 8) |->
        NativeWord(SubSeq(b, 8 * i - 7, 8 * i), host)] @@ <<>>

\* toLittleEndianUint64 and toLittleEndianUint32 of the big-endian builds
\* (endian_be.go): the bytes of the integer in reverse order.
SwapUint64(v) == Reverse(v)
SwapUint32(n) == LEValue(Reverse(NatBytes(n, 4)))

\* toLittleEndianUint64 and toLittleEndianUint32 on the host: the swap on a
\* big-endian host, the integer itself on a little-endian one.
toLittleEndianUint64(v, host) == IF host = "big" THEN SwapUint64(v) ELSE v
toLittleEndianUint32(n, host) == IF host = "big" THEN SwapUint32(n) ELSE n

\* NewDBWriter: the DBWriter it returns; the temp file holds 64 zero bytes.
\* fd is the temp file as the writer sees it: "open", "full" (open, but
\* the file system takes no more bytes: every write fails) or "closed".
NewDBWriter(s, slt) ==
    [fd |-> "open", bb |-> [data |-> {}, salt |-> s], keymap |-> <<>>,
     salt |-> slt, off |-> 64, frozen |-> FALSE]

\* No DBWriter.
NoWriter ==
    [fd |-> "closed", bb |-> [data |-> {}, salt |-> Zero64], keymap |-> <<>>,
     salt |-> <<>>, off |-> 0, frozen |-> FALSE]

\* What a call on the writer x leaves: its error ("nil" for none), the
\* writer, the temp file and the file at the final path.
Wrote(e, x, f, g) == [err |-> e, wr |-> x, tmp |-> f, db |-> g]

\* writeRecord: the bytes of the record of val at offset o, the checksum
\* of <<offset, val>> under the salt and val.
writeRecord(val, o, slt) ==
    BigEndian(SipHash(slt, BigEndian(U64(o)) \o val)) \o val

\* The error of a write on the temp file of x when it fails
WriteErr(x) == IF x.fd = "closed" THEN "closed" ELSE "nospace"

\* addRecord from `if len(val) > 0` on; x holds the key already.  A write
\* on a closed or full temp file fails, and leaves the file as it is.
putRecord(x, f, g, val) ==
    IF Len(val) = 0 THEN Wrote("nil", x, f, g)
    ELSE IF x.fd # "open" THEN Wrote(WriteErr(x), x, f, g)
    ELSE Wrote("nil", [x EXCEPT !.off = @ + Len(val) + 8],
               f \o writeRecord(val, x.off, x.salt), g)

\* addRecord (the values of the model are shorter than 2^32 bytes)
addRecord(x, f, g, key, val) ==
    IF key \in DOMAIN x.keymap THEN Wrote("ErrExists", x, f, g)
    ELSE IF AddKey(x.bb.data, key).err # "nil" THEN Wrote("duplicate", x, f, g)
    ELSE putRecord([x EXCEPT !.keymap = @ @@ (key :> [off |-> x.off, vlen |-> Len(val)]),
                             !.bb.data = AddKey(@, key).data],
                   f, g, val)

\* DBWriter.Add
DBAddThawed(x, f, g, key, val) == addRecord(x, f, g, key, val)
DBAdd(x, f, g, key, val) ==
    IF x.frozen THEN Wrote("ErrFrozen", x, f, g)
    ELSE addRecord(x, f, g, key, val)

\* DBWriter.Len
WriterLen(x) == Cardinality(DOMAIN x.keymap)

\* What AddKeyVals returns: the number of records added z, and what it
\* leaves (out).
AddedKeyVals(z, out) == [n |-> z, err |-> out.err, wr |-> out.wr, tmp |-> out.tmp]

RECURSIVE addKeyVals(_, _, _, _, _, _, _, _)
\* AddKeyVals from pair i on, z records being added; n = min(len(keys),
\* len(vals)).  An error of addRecord ends the loop: ErrExists included.
addKeyVals(x, f, g, keys, vals, n, i, z) ==
    IF i > n THEN AddedKeyVals(z, Wrote("nil", x, f, g))
    ELSE IF addRecord(x, f, g, keys[i], vals[i]).err # "nil"
    THEN AddedKeyVals(z, addRecord(x, f, g, keys[i], vals[i]))
    ELSE addKeyVals(addRecord(x, f, g, keys[i], vals[i]).wr,
                    addRecord(x, f, g, keys[i], vals[i]).tmp,
                    g, keys, vals, n, i + 1, z + 1)

\* min(len(keys), len(vals))
PairsGiven(keys, vals) == IF Len(vals) < Len(keys) THEN Len(vals) ELSE Len(keys)

\* DBWriter.AddKeyVals
DBAddKeyVals(x, f, g, keys, vals) ==
    IF x.frozen THEN AddedKeyVals(0, Wrote("ErrFrozen", x, f, g))
    ELSE addKeyVals(x, f, g, keys, vals, PairsGiven(keys, vals), 1, 0)

\* DBWriter.Abort: the temp file is closed and removed (after Freeze, the
\* rename has moved it away).
DBAbort(x, f, g) == Wrote("nil", [x EXCEPT !.fd = "closed"], NoFile, g)

\* The 64 bytes of the file header: magic, flags, salt, nkeys, offtbl.
FileHeader(slt, n, o) ==
    <<67, 72, 68, 66, 0, 0, 0, 0>> \o slt \o BigEndian(U64(n)) \o BigEndian(U64(o))
        \o Zeros(24)

\* marshalOffsets: the keys of keymap that Find sends to slot i, and the
\* tables for p, the key of each slot (-1 for a slot without key; of the
\* keys of one slot, the one the loop over the map meets last).
SlotKeys(km, c, i) == {k \in DOMAIN km : Find(c, k) = Value(i)}
SlotPicks(km, c) ==
    {p \in [1..ChdLen(c) -> (DOMAIN km) \cup {0 - 1}] :
        \A i \in 1..ChdLen(c) :
            IF SlotKeys(km, c, i - 1) = {} THEN p[i] = 0 - 1
            ELSE p[i] \in SlotKeys(km, c, i - 1)}
offsetTable(km, p) ==
    [j \in 1..(2 * Len(p)) |->
        IF p[(j + 1) \div 2] < 0 THEN Zero64
        ELSE IF j % 2 = 1 THEN U64(km[p[(j + 1) \div 2]].off)
        ELSE U64(p[(j + 1) \div 2])] @@ <<>>
vlenTable(km, p) ==
    [i \in 1..Len(p) |-> IF p[i] < 0 THEN 0 ELSE km[p[i]].vlen] @@ <<>>
marshalOffsets(km, c, host) ==
    {u64sToByteSlice(offsetTable(km, p), host)
        \o ToByteSlice(vlenTable(km, p), 4, host) : p \in SlotPicks(km, c)}

\* (o + n - 1) &^ (n - 1): o rounded up to a multiple of n, a power of two
AlignUp(o, n) == ((o + n - 1) \div n) * n

\* Freeze from the padding after the tables on: o is the offset of the
\* tables, t their bytes.  What the strong checksum covers but the header.
FreezeMeta(c, o, t, host) ==
    t \o Zeros(AlignUp(o + Len(t), 8) - (o + Len(t))) \o MarshalBinary(c, host)

\* Freeze from the header on, hdr being the header and meta the bytes from
\* the tables to the end of the Chd: the zeros up to the page boundary, the
\* meta-data, the checksum of header and meta-data, the header at offset 0,
\* and the rename to the final path.
FreezeFileUnfinished(x, f, o, hdr, meta) ==
    Wrote("nil", [x EXCEPT !.off = o + Len(meta), !.frozen = TRUE, !.fd = "closed"],
          NoFile,
          f \o Zeros(o - x.off) \o meta \o Sum512_256(hdr \o meta))
FreezeFile(x, f, o, hdr, meta) ==
    Wrote("nil", [x EXCEPT !.off = o + Len(meta), !.frozen = TRUE, !.fd = "closed"],
          NoFile,
          hdr \o SubSeq(f, 65, Len(f)) \o Zeros(o - x.off) \o meta
              \o Sum512_256(hdr \o meta))

\* Freeze once ChdBuilder.Freeze has returned out.  An error closes and
\* removes the temp file (the deferred function); a panic leaves everything
\* as it is.  The first write, of the zeros up to the page boundary, fails
\* on a closed or full temp file.
FreezeChd(x, f, g, out, host) ==
    IF out.err = "panic" THEN {Wrote("panic", x, f, g)}
    ELSE IF out.err # "nil"
    THEN {Wrote("ErrMPHFail", [x EXCEPT !.fd = "closed"], NoFile, g)}
    ELSE IF x.fd # "open"
    THEN {Wrote(WriteErr(x), [x EXCEPT !.fd = "closed"], NoFile, g)}
    ELSE IF \E k \in DOMAIN x.keymap : Find(out.chd, k).panic
    THEN {Wrote("panic", x, f, g)}
    ELSE {FreezeFile(x, f, AlignUp(x.off, PageSize),
                     FileHeader(x.salt, ChdLen(out.chd), AlignUp(x.off, PageSize)),
                     FreezeMeta(out.chd, AlignUp(x.off, PageSize), t, host)) :
             t \in marshalOffsets(x.keymap, out.chd, host)}

\* DBWriter.Freeze: every outcome it may have.  On the frozen writer the
\* deferred function closes the closed file again and removes the temp
\* file, which the rename has moved away.
DBFreeze(x, f, g, load, host) ==
    IF x.frozen THEN {Wrote("ErrFrozen", x, f, g)}
    ELSE UNION {FreezeChd(x, f, g, out, host) :
                   out \in FreezeOutcomes(x.bb.data, x.bb.salt, load)}

\* No DBReader, and what NewDBReader returns: an error and the reader.
NoReader == [chd |-> NoChd]
Opened(e, r) == [err |-> e, rd |-> r]

\* NewDBReader once the Chd is unmarshalled (u): bs is the mapped region, a
\* the size of the offset table, b the offset of the Chd in the region.
\* The cache is still to be sized.
openChd(f, n, o, bs, a, b, host, u) ==
    IF u.err = "panic" THEN Opened("panic", NoReader)
    ELSE IF u.err # "nil" THEN Opened("unmarshal", NoReader)
    ELSE Opened("nil",
            [chd |-> u.chd, cache |-> <<>>, size |-> 0,
             flags |-> SubSeq(f, 5, 8),
             offset |-> bsToUint64Slice(SubSeq(bs, 1, a), host),
             vlen |-> FromByteSlice(SubSeq(bs, a + 1, b), 4, host),
             nkeys |-> n, salt |-> SubSeq(f, 9, 24), offtbl |-> o])

\* NewDBReader from the slicing of the mapped region bs on; a = nkeys * 16
\* and b = a + nkeys * 4 are words.  A slice beyond the region panics.
openTables(f, n, o, bs, a, b, host) ==
    IF ~IsSmall(a) \/ ToNat(a) > Len(bs) THEN Opened("panic", NoReader)
    ELSE IF ~IsSmall(b) \/ ToNat(b) > Len(bs) \/ ToNat(b) < ToNat(a)
    THEN Opened("panic", NoReader)
    ELSE openChd(f, n, o, bs, ToNat(a), ToNat(b), host,
                 UnmarshalBinaryMmap(ZeroChd,
                                     Slice(SubSeq(bs, ToNat(b) + 1, Len(bs)),
                                           Len(bs) - ToNat(b)),
                                     host))

\* verifyChecksum: the trailer is the checksum of the header and of the
\* bytes from o to the trailer.
verifyChecksumSkipped(f, o) == TRUE
verifyChecksum(f, o) ==
    Sum512_256(SubSeq(f, 1, 64) \o SubSeq(f, o + 1, Len(f) - 32))
        = SubSeq(f, Len(f) - 31, Len(f))

\* NewDBReader from the bounds of offtbl (decodeHeader) on: n = nkeys and
\* o = offtbl are words, t = 64 + 32 + nkeys * 20.  (The writer stores
\* flags 0, so that no test of a flag holds.)
openHeader(f, n, o, t, host) ==
    IF ~IsSmall(o) \/ ToNat(o) < 64 \/ ToNat(o) >= Len(f) - 32
    THEN Opened("header0", NoReader)
    ELSE IF ~verifyChecksum(f, ToNat(o)) THEN Opened("checksum", NoReader)
    ELSE IF ~IsSmall(t) \/ Len(f) < ToNat(t) THEN Opened("header1", NoReader)
    ELSE IF ToNat(o) % PageSize # 0 THEN Opened("mmap", NoReader)
    ELSE openTables(f, n, ToNat(o), SubSeq(f, ToNat(o) + 1, Len(f) - 32),
                    Mul64(n, U64(16)),
                    Add64(Mul64(n, U64(16)), Mul64(n, U64(4))), host)

\* NewDBReader but for the size of its cache, when the file at fn is f
openFile(f, host) ==
    IF f = NoFile THEN Opened("open", NoReader)
    ELSE IF Len(f) < 64 + 32 THEN Opened("small", NoReader)
    ELSE IF SubSeq(f, 1, 4) # <<67, 72, 68, 66>> THEN Opened("magic", NoReader)
    ELSE openHeader(f, BigEndian(SubSeq(f, 25, 32)), BigEndian(SubSeq(f, 33, 40)),
                    Add64(U64(64 + 32), Mul64(BigEndian(SubSeq(f, 25, 32)), U64(20))),
                    host)

\* Where the MPHF starts in the region mapped at offtbl, for a table of
\* n entries: Freeze writes it after the n * (8 + 8 + 4) bytes of the
\* tables and the zeros up to the next multiple of 8 (offtbl is one of
\* the page size); NewDBReader unmarshals bs[offsz+vlensz:].
WriterChdOffset(n) == AlignUp(n * (8 + 8 + 4), 8)
ReaderChdOffset(n) == n * (8 + 8) + n * 4

\* The cache of the reader: of 128 entries unless cache > 0.
newCache(r, cache) ==
    IF r.err # "nil" THEN r
    ELSE Opened("nil", [r.rd EXCEPT !.size = IF cache <= 0 THEN 128 ELSE cache])

\* NewDBReader(fn, cache) when the file at fn is f, for every cache of sizes
NewDBReader(f, sizes, host) == {newCache(openFile(f, host), cache) : cache \in sizes}

\* DBReader.Len(): int(rd.nkeys), the count the header holds.  (A reader
\* that NewDBReader returned has sliced nkeys * 20 bytes of the file, so
\* that nkeys is below 2^24.)
ReaderLen(r) == ToNat(r.nkeys)

\* What Find returns: an error, the value, and the reader as it is left.
Found(e, v, r) == [err |-> e, val |-> v, rd |-> r]

\* decodeRecord once the vlen + 8 bytes at offset o are read (data)
checkRecord(slt, o, data) ==
    IF BigEndian(SubSeq(data, 1, 8))
           # SipHash(slt, BigEndian(o) \o SubSeq(data, 9, Len(data)))
    THEN [err |-> "corrupt", val |-> <<>>]
    ELSE [err |-> "nil", val |-> SubSeq(data, 9, Len(data))]

\* decodeRecord of the file f: o is a word.  Seek fails on an offset that
\* is negative as an int64, ReadFull on a file that ends before vlen + 8
\* bytes (vlen + 8 stays below 2^31 in the model).
decodeRecord(f, slt, o, vlen) ==
    IF ~IsSmall(o) \/ ToNat(o) + vlen + 8 > Len(f)
    THEN [err |-> "io", val |-> <<>>]
    ELSE checkRecord(slt, o, SubSeq(f, ToNat(o) + 1, ToNat(o) + vlen + 8))

\* cache.Add(key, val) on a cache of the given size: when the cache is
\* full, an entry, which the replacement policy picks, makes room.
CacheAdd(cache, size, key, val) ==
    IF Cardinality(DOMAIN cache) < size THEN {cache @@ (key :> val)}
    ELSE {[k \in ((DOMAIN cache) \ {e}) \cup {key} |->
              IF k = key THEN val ELSE cache[k]] : e \in DOMAIN cache}

\* Find once the record is decoded (d)
findRecordCachesAll(r, key, d) ==
    {Found(d.err, d.val, [r EXCEPT !.cache = c]) :
        c \in CacheAdd(r.cache, r.size, key, d.val)}
findRecord(r, key, d) ==
    IF d.err # "nil" THEN {Found(d.err, <<>>, r)}
    ELSE {Found("nil", d.val, [r EXCEPT !.cache = c]) :
             c \in CacheAdd(r.cache, r.size, key, d.val)}

\* Find from the slot i of the key on: the words 2i and 2i + 1 of the
\* offset table and entry i of the vlen table.  An index outside a table
\* panics.
findSlot(r, f, key, i, host) ==
    IF i.panic \/ 2 * i.val >= Len(r.offset) THEN {Found("panic", <<>>, r)}
    ELSE IF toLittleEndianUint64(r.offset[2 * i.val + 1], host) # U64(key)
    THEN {Found("ErrNoKey", <<>>, r)}
    ELSE IF i.val >= Len(r.vlen) \/ 2 * i.val + 1 >= Len(r.offset)
    THEN {Found("panic", <<>>, r)}
    ELSE findRecord(r, key,
                    decodeRecord(f, r.salt,
                                 toLittleEndianUint64(r.offset[2 * i.val + 2], host),
                                 toLittleEndianUint32(r.vlen[i.val + 1], host)))

\* DBReader.Find(key) on the reader r of the file f: every outcome
DBFind(r, f, key, host) ==
    IF key \in DOMAIN r.cache THEN {Found("nil", r.cache[key], r)}
    ELSE findSlot(r, f, key, Find(r.chd, key), host)

(***************************************************************************)
(* State                                                                   *)
(***************************************************************************)

VARIABLES
    data,   \* ChdBuilder.data: the keys the builder holds
    salt,   \* ChdBuilder.salt
    chd,    \* the Chd the caller holds: the one its last Freeze returned
    ret,    \* the last call and what it returned
    added,  \* history: every key some Add was called with
    host,   \* the byte order of the host
    wbuf,   \* the bytes MarshalBinary wrote
    buf,    \* the byte slice UnmarshalBinaryMmap was last given
    rcv,    \* the Chd UnmarshalBinaryMmap is called on
    wr,     \* the DBWriter
    tmpf,   \* the temp file of the writer
    dbf,    \* the file at the final path of the database
    rd,     \* the DBReader the caller holds
    kv,     \* history: the value of every key the writer accepted
    dup,    \* history: the keys the writer refused as duplicates
    flip,   \* history: the offset of the byte of the database file that
            \* was changed after Freeze (-1 for none)
    fpos,   \* the file offset of rd.fd, the one open file of the reader
    calls   \* the Find calls on the reader, one per goroutine

chdVars == <<data, salt, chd, ret, added>>
codecVars == <<host, wbuf, buf, rcv>>
callVars == <<fpos, calls>>
dbVars == <<wr, tmpf, dbf, rd, kv, dup, flip, callVars>>
chdIdleVars == <<data, salt, chd, added>>
vars == <<chdVars, codecVars, dbVars>>

\* What a call returned: op is the call, key and load its arguments, err
\* its error ("nil" for none, "panic" for a run-time panic), val its value.
Ret(op, key, load, err, val) ==
    [op |-> op, key |-> key, load |-> load, err |-> err, val |-> val]

NoLoad == <<1, 1>>

\* The goroutines that call Find on the one reader.
Goroutines == {1, 2}

\* A goroutine that is in no Find; pc is the place of a goroutine in Find,
\* off and vlen what it read from the tables, data what it read from the
\* file, err and val what its last Find returned.
IdleCall ==
    [pc |-> "idle", key |-> 0, off |-> <<0, 0, 0, 0, 0, 0, 0, 0>>, vlen |-> 0,
     data |-> <<>>, err |-> "nil", val |-> <<>>]

\* No goroutine is in Find, and the file is at its start.
CallsIdle == fpos = 0 /\ calls = [g \in Goroutines |-> IdleCall]

\* What Find(key) returned, r being its outcome.
FindRet(key, r) ==
    Ret("Find", key, NoLoad, IF r.panic THEN "panic" ELSE "nil", r.val)

(***************************************************************************)
(* The builder and its frozen hash                                         *)
(***************************************************************************)

\* No Chd is being marshalled or unmarshalled.
CodecIdle == host = "little" /\ wbuf = <<>> /\ buf = NoSlice /\ rcv = ZeroChd

\* No database is being written or read.
DBIdle ==
    /\ wr = NoWriter /\ tmpf = NoFile /\ dbf = NoFile /\ rd = NoReader
    /\ kv = <<>> /\ dup = {} /\ flip = 0 - 1 /\ CallsIdle

\* New(): an empty key set and a random salt.
InitChd ==
    /\ data = {}
    /\ salt \in Salts
    /\ chd = NoChd
    /\ ret = Ret("New", 0, NoLoad, "nil", 0)
    /\ added = {}
    /\ CodecIdle
    /\ DBIdle

\* ChdBuilder.Add(key).  The caller lets go of the Chd of an earlier Freeze
\* when it goes on adding keys.
Add ==
    \E key \in KeySet :
        /\ Cardinality(data) < MaxKeys \/ key \in data
        /\ data' = AddKey(data, key).data
        /\ ret' = Ret("Add", key, NoLoad, AddKey(data, key).err, 0)
        /\ chd' = NoChd
        /\ added' = added \cup {key}
        /\ UNCHANGED <<salt, codecVars, dbVars>>

\* ChdBuilder.Freeze(load)
Freeze ==
    \E load \in Loads :
        \E out \in FreezeOutcomes(data, salt, load) :
            /\ chd' = out.chd
            /\ ret' = Ret("Freeze", 0, load, out.err, 0)
            /\ UNCHANGED <<data, salt, added, codecVars, dbVars>>

\* Chd.Find(key) on the frozen hash
ChdFind ==
    \E key \in KeySet :
        /\ chd # NoChd
        /\ ret' = FindRet(key, Find(chd, key))
        /\ UNCHANGED <<data, salt, chd, added, codecVars, dbVars>>

NextChd == Add \/ Freeze \/ ChdFind

SpecChd == InitChd /\ [][NextChd]_vars

(***************************************************************************)
(* Properties of the builder and its frozen hash                           *)
(***************************************************************************)

\* 0 < load < 1
ProperLoad(load) == 0 < load[1] /\ load[1] < load[2]

\* Freeze has just returned a Chd and no error.
Froze == ret.op = "Freeze" /\ ret.err = "nil"

\* n is a power of two.
IsPow2(n) == \E i \in 0..24 : n = 2 ^ i

\* C1: when Freeze succeeds on the key set K of the builder at a load with
\* 0 < load < 1, Find on the Chd it returns gives the keys of K pairwise
\* distinct values, each in [0, Len()), and Len() >= |K|.
C1_FindIsPerfect ==
    (Froze /\ ProperLoad(ret.load)) =>
        /\ \A k \in data :
              /\ ~Find(chd, k).panic
              /\ Find(chd, k).val \in 0..(ChdLen(chd) - 1)
        /\ \A k1, k2 \in data : k1 # k2 => Find(chd, k1).val # Find(chd, k2).val
        /\ ChdLen(chd) >= Cardinality(data)

\* Freeze succeeded at a load in (0, 1) on three keys, two of which share a
\* bucket.
C1_Witness ==
    /\ Froze /\ ProperLoad(ret.load)
    /\ Cardinality(data) >= 3
    /\ \E k1, k2 \in data :
          /\ k1 # k2
          /\ rhash(0, k1, ChdLen(chd), salt) = rhash(0, k2, ChdLen(chd), salt)

\* C4: for every frozen Chd with table length m and every key, in the input
\* set or not, Find returns a value in [0, m) and does not index outside the
\* seed table (does not panic).
C4_FindInRange ==
    ret.op = "Find" => ret.err = "nil" /\ ret.val \in 0..(ChdLen(chd) - 1)

\* Find on the Chd frozen from no keys indexes an empty seed table.
C4_Witness ==
    ret.op = "Find" /\ ret.err = "panic" /\ data = {} /\ ChdLen(chd) = 0

C7_InvalidLoadRejected ==
    (ret.op = "Freeze" /\ (ret.load[1] <= 0 \/ ret.load[1] >= ret.load[2])) =>
        ret.err = "invalid"

\* Freeze(0) on a builder that holds keys panicked.
C7_Witness ==
    ret.op = "Freeze" /\ ret.load[1] = 0 /\ data # {} /\ ret.err = "panic"

\* C8: Add(key) returns an error and leaves the key set as it is when the
\* key is in it, and inserts the key otherwise; so the key set is at all
\* times the set of the keys Add was called with.
C8_AddRejectsDuplicates ==
    /\ [](data = added)
    /\ [][ret'.op = "Add" =>
             IF ret'.key \in data
             THEN ret'.err = "duplicate" /\ data' = data
             ELSE ret'.err = "nil" /\ data' = data \cup {ret'.key}]_vars

\* Add was called with a key the builder holds, after other keys.
C8_Witness ==
    ret.op = "Add" /\ ret.err = "duplicate" /\ Cardinality(data) >= 2

(***************************************************************************)
(* Marshalling a frozen hash and reading it back                           *)
(***************************************************************************)

\* The largest seed that 2 bytes hold.
MaxU16 == 65535

\* The tables of seeds of the Chds that are marshalled: of 0, 1 and 2 seeds.
\* MaxU16 comes in a table of its own: next to another seed its bytes, read
\* as one seed of 4 bytes, are a number of 2^31 or more.
SeedTables ==
    {<<>>, <<MaxU16>>} \cup {<<s>> : s \in CodecSeeds}
        \cup {<<s, 1>> : s \in CodecSeeds} \cup {<<1, s>> : s \in CodecSeeds}

\* A process that holds a Chd some Freeze returned (every bucket has a seed
\* of 1 or more; the seeds are as wide as the largest asks for), and a
\* Chd{} to unmarshal into.
InitCodec ==
    /\ data = {} /\ added = {}
    /\ salt \in Salts
    /\ \E seeds \in SeedTables : chd = Frozen(seeds, salt).chd
    /\ ret = Ret("Freeze", 0, NoLoad, "nil", 0)
    /\ host \in Hosts
    /\ wbuf = <<>> /\ buf = NoSlice /\ rcv = ZeroChd
    /\ DBIdle

\* chd.MarshalBinary(w)
Marshal ==
    /\ wbuf' = MarshalBinary(chd, host)
    /\ ret' = Ret("Marshal", 0, NoLoad, "nil", Len(MarshalBinary(chd, host)))
    /\ UNCHANGED <<data, salt, chd, added, host, buf, rcv, dbVars>>

\* The byte slices UnmarshalBinaryMmap is given, w being what MarshalBinary
\* wrote: w itself; w cut short, in a backing array that ends with the
\* slice or that holds all of w; w with another version or seed size; w
\* with one more byte.
CutLens == {0, 15, 16, 17}
Buffers(w) ==
    {Slice(w, Len(w)), Slice(w \o <<1>>, Len(w) + 1)}
        \cup {Slice(SubSeq(w, 1, n), n) : n \in CutLens \cap 0..Len(w)}
        \cup {Slice(w, n) : n \in CutLens \cap 0..Len(w)}
        \cup {Slice([w EXCEPT ![1] = v], Len(w)) : v \in {0, 2}}
        \cup {Slice([w EXCEPT ![2] = v], Len(w)) : v \in {0, 1, 2, 3, 4}}

\* rcv.UnmarshalBinaryMmap(b)
Unmarshal ==
    \E b \in Buffers(wbuf) :
        /\ wbuf # <<>>
        /\ buf' = b
        /\ rcv' = UnmarshalBinaryMmap(rcv, b, host).chd
        /\ ret' = Ret("Unmarshal", 0, NoLoad, UnmarshalBinaryMmap(rcv, b, host).err, 0)
        /\ UNCHANGED <<data, salt, chd, added, host, wbuf, dbVars>>

\* rcv.Find(key)
RcvFind ==
    \E key \in KeySet :
        /\ ret.op = "Unmarshal"
        /\ ret' = FindRet(key, Find(rcv, key))
        /\ UNCHANGED <<data, salt, chd, added, codecVars, dbVars>>

NextCodec == Marshal \/ Unmarshal \/ RcvFind

SpecCodec == InitCodec /\ [][NextCodec]_vars

(***************************************************************************)
(* Properties of the binary form                                           *)
(***************************************************************************)

\* UnmarshalBinaryMmap has just returned, and what it was given.
UnmarshalRet == ret.op = "Unmarshal"
WholeImage == buf = Slice(wbuf, Len(wbuf))
ShortBuffer == buf.len < ChdHeaderSize
BadVersion == buf.len >= 1 /\ buf.mem[1] # 1
BadSeedSize == buf.len >= 2 /\ buf.mem[2] \notin {1, 2, 4}
PartialBody ==
    /\ buf.len >= ChdHeaderSize
    /\ buf.mem[2] \in {1, 2, 4}
    /\ (buf.len - ChdHeaderSize) % buf.mem[2] # 0

\* C9: unmarshalling the bytes MarshalBinary wrote for a frozen Chd gives,
\* with no error, a Chd of the same table length, seeds and salt, whose
\* Find returns what the first one's Find returns, for every key.
C9_RoundTrip ==
    (UnmarshalRet /\ WholeImage) =>
        /\ ret.err = "nil"
        /\ ChdLen(rcv) = ChdLen(chd)
        /\ rcv.seed.seeds = chd.seed.seeds
        /\ rcv.salt = chd.salt
        /\ \A k \in KeySet : Find(rcv, k) = Find(chd, k)

\* A Chd of two 16-bit seeds, with a salt that is not 0, was read back on a
\* big-endian host.
C9_Witness ==
    /\ UnmarshalRet /\ WholeImage
    /\ host = "big" /\ SeedSize(chd) = 2 /\ ChdLen(chd) = 2 /\ chd.salt # Zero64
    /\ \E k \in KeySet : ~Find(chd, k).panic

\* C10: UnmarshalBinaryMmap returns an error when the version is not 1,
\* when the seed size is not 1, 2 or 4, and when the length of the body is
\* no multiple of the seed size; it leaves the receiver as it was whenever
\* it returns an error; and it does not fail by reading past the buffer
\* (it does not panic), a buffer shorter than the header being an error.
C10_UnmarshalErrors ==
    /\ [](UnmarshalRet =>
            /\ ret.err # "panic"
            /\ (BadVersion \/ BadSeedSize \/ PartialBody \/ ShortBuffer)
                  => ret.err # "nil")
    /\ [][(ret'.op = "Unmarshal" /\ ret'.err # "nil") => rcv' = rcv]_vars

\* UnmarshalBinaryMmap panicked on a buffer shorter than the header.
C10_Witness == UnmarshalRet /\ ShortBuffer /\ ret.err = "panic"

(***************************************************************************)
(* The constant database                                                   *)
(***************************************************************************)

\* The keys and values given to the writer (values: none and "hi"), the
\* most records a writer is given, the loads of its Freeze (0.5, 0.75,
\* 1.25), the salts randbytes(16) may return and the cache sizes readers
\* ask for.
DBKeys == {0, 1, 64}
DBVals == {<<>>, <<104, 105>>}
MaxRecords == 2
DBLoads == {<<1, 2>>, <<3, 4>>, <<5, 4>>}
DBSalts == {<<0, 1, 2, 3, 4, 5, 6, 7, 8, 9, 10, 11, 12, 13, 14, 15>>}
CacheSizes == {0, 1}

\* The keys readers look up.
FindKeys == DBKeys \cup {2}

\* The salt rand64() gives the builder of a writer.
WriterSalts == {Zero64}

\* No builder and no Chd of their own are in use.
ChdIdle == data = {} /\ salt = Zero64 /\ chd = NoChd /\ added = {}

\* The state NewDBWriter(fn) leaves on the host h when it returns the
\* writer x: the temp file holds the 64 bytes reserved for the header.
WriterReady(x, h) ==
    /\ wr = x
    /\ tmpf = Zeros(64)
    /\ dbf = NoFile
    /\ rd = NoReader
    /\ kv = <<>> /\ dup = {} /\ flip = 0 - 1 /\ CallsIdle
    /\ ret = Ret("NewDBWriter", 0, NoLoad, "nil", <<>>)
    /\ host = h
    /\ wbuf = <<>> /\ buf = NoSlice /\ rcv = ZeroChd
    /\ ChdIdle

\* NewDBWriter(fn) on a little-endian host: a writer with random salts, and
\* its temp file.
InitDB ==
    \E s \in WriterSalts, slt \in DBSalts : WriterReady(NewDBWriter(s, slt), "little")

\* DBWriter.Add(key, val); the caller is done with the writer when it opens
\* the database.
WriterAdd ==
    \E key \in DBKeys, val \in DBVals :
        /\ wr # NoWriter /\ rd = NoReader
        /\ wr.frozen \/ Cardinality(DOMAIN wr.keymap) + Cardinality(dup) < MaxRecords
        /\ \E out \in {DBAdd(wr, tmpf, dbf, key, val)} :
            /\ wr' = out.wr
            /\ tmpf' = out.tmp
            /\ dbf' = out.db
            /\ ret' = Ret("DBAdd", key, NoLoad, out.err, <<>>)
            /\ kv' = IF out.err = "nil" THEN kv @@ (key :> val) ELSE kv
            /\ dup' = IF out.err = "ErrExists" THEN dup \cup {key} ELSE dup
        /\ UNCHANGED <<rd, flip, chdIdleVars, codecVars, callVars>>

\* DBWriter.Freeze(load)
WriterFreeze ==
    \E load \in DBLoads :
        /\ wr # NoWriter /\ rd = NoReader
        /\ \E out \in DBFreeze(wr, tmpf, dbf, load, host) :
            /\ wr' = out.wr
            /\ tmpf' = out.tmp
            /\ dbf' = out.db
            /\ ret' = Ret("DBFreeze", 0, load, out.err, <<>>)
        /\ UNCHANGED <<rd, kv, dup, flip, chdIdleVars, codecVars, callVars>>

\* NewDBReader(fn, cache) by a caller that holds no reader and has just
\* frozen the database
Open ==
    /\ rd = NoReader /\ dbf # NoFile
    /\ ret.op \in {"DBFreeze", "Corrupt"} /\ ret.err = "nil"
    /\ \E out \in NewDBReader(dbf, CacheSizes, host) :
        /\ rd' = out.rd
        /\ ret' = Ret("NewDBReader", 0, NoLoad, out.err, <<>>)
    /\ UNCHANGED <<wr, tmpf, dbf, kv, dup, flip, chdIdleVars, codecVars, callVars>>

\* DBReader.Find(key)
ReaderFind ==
    \E key \in FindKeys :
        /\ rd # NoReader
        /\ \E out \in DBFind(rd, dbf, key, host) :
            /\ rd' = out.rd
            /\ ret' = Ret("DBFind", key, NoLoad, out.err, out.val)
        /\ UNCHANGED <<wr, tmpf, dbf, kv, dup, flip, chdIdleVars, codecVars, callVars>>

NextDB == WriterAdd \/ WriterFreeze \/ Open \/ ReaderFind

SpecDB == InitDB /\ [][NextDB]_vars

(***************************************************************************)
(* The writer alone: AddKeyVals, Abort, and a file system that fills up    *)
(***************************************************************************)

\* The keys and the values AddKeyVals is given.
KeyLists == {<<1>>, <<1, 64>>, <<0, 0, 64>>}
ValLists == {<<<<104, 105>>, <<>>>>, <<<<104, 105>>, <<104, 105>>, <<>>>>}

\* NewDBWriter(fn) when the write that reserves the header fails: no
\* writer is returned, and the temp file, created and empty, is neither
\* closed nor removed.
WriterFailed ==
    /\ wr = NoWriter
    /\ tmpf = <<>>
    /\ dbf = NoFile
    /\ rd = NoReader
    /\ kv = <<>> /\ dup = {} /\ flip = 0 - 1 /\ CallsIdle
    /\ ret = Ret("NewDBWriter", 0, NoLoad, "nospace", <<>>)
    /\ host = "little"
    /\ wbuf = <<>> /\ buf = NoSlice /\ rcv = ZeroChd
    /\ ChdIdle

\* NewDBWriter(fn)
InitWriter == InitDB \/ WriterFailed

\* The pairs AddKeyVals added when it returned z: the first z.
AddedPairs(keys, vals, z) ==
    [k \in {keys[i] : i \in 1..z} |-> vals[CHOOSE i \in 1..z : keys[i] = k]]

\* The keys of the pairs AddKeyVals is given.
KeysGiven(keys, vals) == {keys[i] : i \in 1..PairsGiven(keys, vals)}

\* DBWriter.AddKeyVals(keys, vals)
WriterAddKeyVals ==
    \E keys \in KeyLists, vals \in ValLists :
        /\ wr # NoWriter /\ rd = NoReader
        /\ wr.frozen \/ Cardinality(DOMAIN wr.keymap) + Cardinality(dup) < MaxRecords
        /\ wr.frozen \/ Cardinality((DOMAIN wr.keymap) \cup KeysGiven(keys, vals)) <= MaxRecords
        /\ \E out \in {DBAddKeyVals(wr, tmpf, dbf, keys, vals)} :
            /\ wr' = out.wr
            /\ tmpf' = out.tmp
            /\ ret' = Ret("DBAddKeyVals", 0, NoLoad, out.err, <<out.n, keys, vals>>)
            /\ kv' = kv @@ AddedPairs(keys, vals, out.n)
            /\ dup' = IF out.err = "ErrExists" THEN dup \cup {keys[out.n + 1]} ELSE dup
        /\ UNCHANGED <<dbf, rd, flip, chdIdleVars, codecVars, callVars>>

\* DBWriter.Abort()
WriterAbort ==
    /\ wr # NoWriter /\ rd = NoReader
    /\ \E out \in {DBAbort(wr, tmpf, dbf)} :
        /\ wr' = out.wr
        /\ tmpf' = out.tmp
        /\ dbf' = out.db
        /\ ret' = Ret("DBAbort", 0, NoLoad, out.err, <<>>)
    /\ UNCHANGED <<rd, kv, dup, flip, chdIdleVars, codecVars, callVars>>

\* The file system of the temp file fills up: from now on every write on
\* the open temp file fails.
DiskFull ==
    /\ wr # NoWriter /\ wr.fd = "open"
    /\ wr' = [wr EXCEPT !.fd = "full"]
    /\ UNCHANGED <<tmpf, dbf, rd, kv, dup, flip, ret, chdIdleVars, codecVars, callVars>>

NextWriter ==
    WriterAdd \/ WriterAddKeyVals \/ WriterFreeze \/ WriterAbort \/ DiskFull

SpecWriter == InitWriter /\ [][NextWriter]_vars

\* A Find of the reader has returned.
DBFindRet == ret.op = "DBFind"

\* ------------------------------------------------------------------
\* The reader on a file that was changed after Freeze.
\* ------------------------------------------------------------------

\* The databases the reader is given: the pairs in the order they are
\* added, and the load of Freeze.  The first has a table of two slots and
\* no padding after the tables, the second a table of one slot and four
\* bytes of padding.
FrozenDBs ==
    {[keys |-> <<64, 1>>, vals |-> <<<<104, 105>>, <<>>>>, load |-> <<3, 4>>],
     [keys |-> <<64>>, vals |-> <<<<104, 105>>>>, load |-> <<3, 4>>]}

\* What is added to a byte that is changed.
FlipDeltas == {1}

\* The offset at which the records of the keys ks of writer x end: the
\* header, then 8 bytes of checksum and the value for every value that is
\* not empty.
RECURSIVE RecordsEnd(_, _)
RecordsEnd(x, ks) ==
    IF ks = {} THEN 64
    ELSE RecordsEnd(x, ks \ {CHOOSE k \in ks : TRUE})
            + (IF x.keymap[CHOOSE k \in ks : TRUE].vlen = 0 THEN 0
               ELSE x.keymap[CHOOSE k \in ks : TRUE].vlen + 8)

\* The bytes of the file f that are changed: all but the zeros between
\* the records and the page boundary.
FlipPositions(x, f) ==
    {q \in 1..Len(f) : q <= RecordsEnd(x, DOMAIN x.keymap) \/ q > AlignUp(RecordsEnd(x, DOMAIN x.keymap), PageSize)}

\* NewDBWriter, AddKeyVals and Freeze have written the database db.
FrozenDB(db, akv, out) ==
    /\ akv.err = "nil" /\ out.err = "nil"
    /\ wr = out.wr
    /\ tmpf = out.tmp
    /\ dbf = out.db
    /\ rd = NoReader
    /\ kv = AddedPairs(db.keys, db.vals, akv.n)
    /\ dup = {} /\ flip = 0 - 1 /\ CallsIdle
    /\ ret = Ret("DBFreeze", 0, db.load, "nil", <<>>)
    /\ host = "little"
    /\ wbuf = <<>> /\ buf = NoSlice /\ rcv = ZeroChd
    /\ ChdIdle

InitReader ==
    \E db \in FrozenDBs, s \in WriterSalts, slt \in DBSalts :
        \E akv \in {DBAddKeyVals(NewDBWriter(s, slt), Zeros(64), NoFile, db.keys, db.vals)} :
            \E out \in DBFreeze(akv.wr, akv.tmp, NoFile, db.load, "little") :
                FrozenDB(db, akv, out)

\* One byte of the closed database file is changed.
Corrupt ==
    \E q \in FlipPositions(wr, dbf), d \in FlipDeltas :
        /\ rd = NoReader /\ flip < 0
        /\ ret.op = "DBFreeze"
        /\ dbf' = [dbf EXCEPT ![q] = (@ + d) % 256]
        /\ flip' = q
        /\ ret' = Ret("Corrupt", 0, NoLoad, "nil", <<>>)
        /\ UNCHANGED <<wr, tmpf, rd, kv, dup, chdIdleVars, codecVars, callVars>>

NextReader == Corrupt \/ Open \/ ReaderFind

SpecReader == InitReader /\ [][NextReader]_vars

\* ------------------------------------------------------------------
\* The writer and the sizes of the values: the values are given by their
\* lengths, which are 64-bit words, and the temp file by its size.
\* ------------------------------------------------------------------

\* a < b for 64-bit words, from byte i down
RECURSIVE Less64At(_, _, _)
Less64At(a, b, i) ==
    IF i = 0 THEN FALSE
    ELSE IF a[i] # b[i] THEN a[i] < b[i]
    ELSE Less64At(a, b, i - 1)

Less64(a, b) == Less64At(a, b, WordBytes)

\* uint64(1<<32) - 1
MaxValueLen == <<255, 255, 255, 255, 0, 0, 0, 0>>

\* uint32(len(val))
Uint32Of(n) == SubSeq(n, 1, 4)

\* The lengths of the values: 0, 2, 2^32 - 2, 2^32 - 1, 2^32, 2^32 + 1,
\* 2^40.
ValueSizes ==
    {U64(0), U64(2),
     <<254, 255, 255, 255, 0, 0, 0, 0>>, MaxValueLen,
     <<0, 0, 0, 0, 1, 0, 0, 0>>, <<1, 0, 0, 0, 1, 0, 0, 0>>,
     <<0, 0, 0, 0, 0, 1, 0, 0>>}

\* The writer NewDBWriter returns, with the 64 bytes of the header in the
\* temp file.
NewSizedWriter ==
    [fd |-> "open", keymap |-> <<>>, off |-> U64(64), size |-> U64(64),
     frozen |-> FALSE]

Sized(e, x) == [err |-> e, wr |-> x]

\* writeRecord of a value of n bytes at the end of the temp file
putSized(x, n) ==
    IF n = Zero64 THEN Sized("nil", x)
    ELSE IF x.fd # "open" THEN Sized(WriteErr(x), x)
    ELSE Sized("nil", [x EXCEPT !.off = Add64(Add64(@, n), U64(8)),
                                !.size = Add64(Add64(@, n), U64(8))])

\* uint64(len(val)) > uint64(1<<32)-1
ValueTooLargeOffByOne(n) == ~Less64(n, MaxValueLen)
ValueTooLarge(n) == Less64(MaxValueLen, n)

\* addRecord(key, val) with len(val) = n.  (The builder holds the keys of
\* the key map, so that its Add does not fail.)
addRecordSized(x, key, n) ==
    IF ValueTooLarge(n) THEN Sized("ErrValueTooLarge", x)
    ELSE IF key \in DOMAIN x.keymap THEN Sized("ErrExists", x)
    ELSE putSized([x EXCEPT !.keymap = @ @@ (key :> [off |-> x.off, vlen |-> Uint32Of(n)])],
                  n)

\* DBWriter.Add(key, val) with len(val) = n
AddSized(x, key, n) ==
    IF x.frozen THEN Sized("ErrFrozen", x)
    ELSE addRecordSized(x, key, n)

InitSized ==
    /\ wr = NewSizedWriter
    /\ tmpf = NoFile /\ dbf = NoFile /\ rd = NoReader
    /\ kv = <<>> /\ dup = {} /\ flip = 0 - 1 /\ CallsIdle
    /\ ret = Ret("NewDBWriter", 0, NoLoad, "nil", Zero64)
    /\ CodecIdle
    /\ ChdIdle

\* DBWriter.Add(key, val) for a value of every length of ValueSizes
WriterAddSized ==
    \E key \in DBKeys, n \in ValueSizes :
        /\ \E out \in {AddSized(wr, key, n)} :
            /\ wr' = out.wr
            /\ ret' = Ret("DBAdd", key, NoLoad, out.err, n)
        /\ UNCHANGED <<tmpf, dbf, rd, kv, dup, flip, chdIdleVars, codecVars, callVars>>

NextSized == WriterAddSized

SpecSized == InitSized /\ [][NextSized]_vars

\* ------------------------------------------------------------------
\* The reader, its cache and the slices it returns.
\* ------------------------------------------------------------------

\* The databases of the lookups.  In the first two the keys are the
\* offsets of their records (64, then 74 and 84 after records of 8 + 2
\* bytes); the third has a key with no value before a record.
CacheDBs ==
    {[keys |-> <<64, 74>>, vals |-> <<<<104, 105>>, <<121, 111>>>>, load |-> <<3, 4>>],
     [keys |-> <<64, 74, 84>>,
      vals |-> <<<<104, 105>>, <<121, 111>>, <<111, 107>>>>, load |-> <<3, 4>>],
     [keys |-> <<64, 1>>, vals |-> <<<<>>, <<104, 105>>>>, load |-> <<3, 4>>]}

\* The keys looked up
CacheKeys == {1, 2, 64, 74, 84}

\* The cache argument of NewDBReader: 0 stands for 128 entries
CacheCaps == {0, 1, 2}

\* The bytes a caller stores in a slice it got
WriteBytes == {0, 255}

InitCache ==
    \E db \in CacheDBs, s \in WriterSalts, slt \in DBSalts :
        \E akv \in {DBAddKeyVals(NewDBWriter(s, slt), Zeros(64), NoFile, db.keys, db.vals)} :
            \E out \in DBFreeze(akv.wr, akv.tmp, NoFile, db.load, "little") :
                FrozenDB(db, akv, out)

\* DBReader.Find(key)
CachedFind ==
    \E key \in CacheKeys :
        /\ rd # NoReader
        /\ \E out \in DBFind(rd, dbf, key, host) :
            /\ rd' = out.rd
            /\ ret' = Ret("DBFind", key, NoLoad, out.err, out.val)
        /\ UNCHANGED <<wr, tmpf, dbf, kv, dup, flip, chdIdleVars, codecVars, callVars>>

\* NewDBReader(fn, cache)
OpenCache ==
    /\ rd = NoReader /\ dbf # NoFile
    /\ ret.op = "DBFreeze" /\ ret.err = "nil"
    /\ \E out \in NewDBReader(dbf, CacheCaps, host) :
        /\ rd' = out.rd
        /\ ret' = Ret("NewDBReader", 0, NoLoad, out.err, <<>>)
    /\ UNCHANGED <<wr, tmpf, dbf, kv, dup, flip, chdIdleVars, codecVars, callVars>>

NextCache == OpenCache \/ CachedFind

SpecCache == InitCache /\ [][NextCache]_vars

\* The slice v with b stored at index i
SliceWrite(v, i, b) == [v EXCEPT ![i] = b]

\* The caller stores a byte in the slice the last Find returned.  Find
\* returns the slice it has put in the cache, or the one it got from the
\* cache (rd.cache.Add(key, val); return val), so that the store is one
\* into the value of the cache as long as the cache holds the key.  (The
\* caller stores into a slice that holds the value of the database.)
CallerWrite ==
    \E i \in 1..Len(ret.val), b \in WriteBytes :
        /\ rd # NoReader
        /\ ret.op = "DBFind" /\ ret.err = "nil"
        /\ ret.val = kv[ret.key] /\ ret.val[i] # b
        /\ ret' = Ret("CallerWrite", ret.key, NoLoad, "nil", SliceWrite(ret.val, i, b))
        /\ rd' = IF ret.key \in DOMAIN rd.cache
                 THEN [rd EXCEPT !.cache[ret.key] = SliceWrite(ret.val, i, b)]
                 ELSE rd
        /\ UNCHANGED <<wr, tmpf, dbf, kv, dup, flip, chdIdleVars, codecVars, callVars>>

NextAlias == OpenCache \/ CachedFind \/ CallerWrite

SpecAlias == InitCache /\ [][NextAlias]_vars

\* ------------------------------------------------------------------
\* NewDBReader on files that no writer made.
\* ------------------------------------------------------------------

\* The magic of the header, and one that is not
Magics == {<<67, 72, 68, 66>>, <<67, 72, 68, 67>>}

\* nkeys of the header: 0, 1, 2 and 2^62, for which nkeys * 20, nkeys * 16
\* and nkeys * 4 are 0 as uint64
CraftedKeys == {U64(0), U64(1), U64(2), <<0, 0, 0, 0, 0, 0, 0, 64>>}

\* offtbl of the header
CraftedOffsets == {0, 63, 64, PageSize}

\* The number of bytes between offtbl (or the header, when offtbl is before
\* its end) and the trailer
CraftedRegions == {0, 10, 16, 20, 36, 56}

\* The header and what follows it up to the trailer, all zeros
CraftedBody(mg, n, o, t) ==
    mg \o <<0, 0, 0, 0>> \o Zeros(16) \o BigEndian(n) \o BigEndian(U64(o)) \o Zeros(24)
       \o Zeros((IF o < 64 THEN 64 ELSE o) - 64 + t)

\* A file with the trailer verifyChecksum expects, when offtbl is one that
\* decodeHeader accepts, and a trailer of zeros otherwise
CraftedFile(b, o) ==
    IF o >= 64 /\ o < Len(b)
    THEN b \o Sum512_256(SubSeq(b, 1, 64) \o SubSeq(b, o + 1, Len(b)))
    ELSE b \o Zeros(32)

\* Files of fewer than 64 + 32 bytes
ShortFiles == {<<>>, <<67, 72, 68, 66>> \o Zeros(91)}

\* The file f is at the path given to NewDBReader.
FileGiven(f) ==
    /\ dbf = f
    /\ wr = NoWriter /\ tmpf = NoFile /\ rd = NoReader
    /\ kv = <<>> /\ dup = {} /\ flip = 0 - 1 /\ CallsIdle
    /\ ret = Ret("NewDBReader", 0, NoLoad, "none", <<>>)
    /\ CodecIdle
    /\ ChdIdle

InitOpen ==
    \/ \E f \in ShortFiles : FileGiven(f)
    \/ \E mg \in Magics, n \in CraftedKeys, o \in CraftedOffsets, t \in CraftedRegions :
          \E b \in {CraftedBody(mg, n, o, t)} : FileGiven(CraftedFile(b, o))

\* NewDBReader(fn, cache) on the file given
OpenGiven ==
    /\ rd = NoReader /\ ret.err = "none"
    /\ \E out \in NewDBReader(dbf, CacheSizes, host) :
        /\ rd' = out.rd
        /\ ret' = Ret("NewDBReader", 0, NoLoad, out.err, <<>>)
    /\ UNCHANGED <<wr, tmpf, dbf, kv, dup, flip, chdIdleVars, codecVars, callVars>>

NextOpen == OpenGiven

SpecOpen == InitOpen /\ [][NextOpen]_vars

\* C2: on a database written from distinct keys and their values (Add of each
\* pair, then Freeze) NewDBReader returns no error, and Find(k) of the opened
\* database returns the value added with k and no error, for every key k
\* added.
C2_RoundTrip ==
    /\ ret.op = "NewDBReader" /\ kv # <<>> => ret.err = "nil"
    /\ DBFindRet /\ ret.key \in DOMAIN kv => ret.err = "nil" /\ ret.val = kv[ret.key]

\* A Find of a key added with a value of two bytes, on a database that holds
\* that key alone, returns the key-not-found error.
C2_Witness ==
    /\ DBFindRet /\ DOMAIN kv = {ret.key}
    /\ Len(kv[ret.key]) = 2
    /\ ret.err = "ErrNoKey"

\* C3: Find(k) of the opened database returns the key-not-found error, and
\* neither a value nor another error, for every key k that was not added:
\* k = 0 and keys of a slot that holds no key included.
C3_NoKey == DBFindRet /\ ret.key \notin DOMAIN kv => ret.err = "ErrNoKey"

\* A Find of key 0, which was not added, ends in the corrupt-record error on
\* a database that holds a key.
C3_Witness ==
    /\ DBFindRet /\ ret.key = 0
    /\ kv # <<>> /\ 0 \notin DOMAIN kv
    /\ ret.err = "corrupt"

\* C11: an Add of a key added before returns the duplicate-key error (ErrExists),
\* writes nothing to the file and leaves Len() and the offset and length
\* recorded for the first record as they were, so that after Freeze the
\* reader returns the first value of the key.
C11_DuplicateKeepsFirst ==
    /\ ret.op = "DBAdd" /\ ret.key \in dup /\ wr.fd = "open" =>
        /\ ret.err = "ErrExists"
        /\ wr.keymap[ret.key].vlen = Len(kv[ret.key])
        /\ Len(tmpf) = wr.off
        /\ Len(kv[ret.key]) > 0 =>
               SubSeq(tmpf, wr.keymap[ret.key].off + 1,
                      wr.keymap[ret.key].off + 8 + Len(kv[ret.key]))
                   = writeRecord(kv[ret.key], wr.keymap[ret.key].off, wr.salt)
    /\ DBFindRet /\ ret.key \in dup => ret.err = "nil" /\ ret.val = kv[ret.key]

\* A Find of a key that was added with a value of two bytes, and then
\* refused as a duplicate, returns the key-not-found error.
C11_Witness ==
    /\ DBFindRet /\ ret.key \in dup
    /\ Len(kv[ret.key]) = 2
    /\ ret.err = "ErrNoKey"

\* C12: AddKeyVals on a writer that takes records handles the first
\* min(len(keys), len(vals)) pairs: it discards the pairs whose key is a
\* duplicate, of an earlier pair or of a key added before, without failing,
\* adds all the others, and returns the number of records it added.
C12_AddKeyVals ==
    [][ret'.op = "DBAddKeyVals" /\ ~wr.frozen /\ wr.fd = "open" /\ wr'.fd = "open" =>
        /\ ret'.err = "nil"
        /\ DOMAIN wr'.keymap
               = (DOMAIN wr.keymap) \cup KeysGiven(ret'.val[2], ret'.val[3])
        /\ ret'.val[1]
               = Cardinality(KeysGiven(ret'.val[2], ret'.val[3]) \ DOMAIN wr.keymap)
        /\ \A i \in 1..PairsGiven(ret'.val[2], ret'.val[3]) :
               (ret'.val[2][i] \notin DOMAIN wr.keymap
                   /\ \A j \in 1..(i - 1) : ret'.val[2][j] # ret'.val[2][i])
               => wr'.keymap[ret'.val[2][i]].vlen = Len(ret'.val[3][i])]_vars

\* AddKeyVals, given the keys 0, 0, 64 and three values on a writer whose
\* file takes them, has failed with ErrExists after one record, and key 64
\* is not added.
C12_Witness ==
    /\ ret.op = "DBAddKeyVals" /\ ret.val[2] = <<0, 0, 64>> /\ Len(ret.val[3]) = 3
    /\ wr.fd = "open" /\ ~wr.frozen
    /\ ret.err = "ErrExists" /\ ret.val[1] = 1
    /\ DOMAIN wr.keymap = {0}

\* C13: once Freeze has succeeded (the writer is frozen and the database is
\* at the final path), every Add, AddKeyVals and Freeze returns ErrFrozen,
\* adds no key, and leaves the database file present and as it was.
C13_FrozenRejects ==
    [][wr.frozen /\ dbf # NoFile /\ ret'.op \in {"DBAdd", "DBAddKeyVals", "DBFreeze"} =>
          /\ ret'.err = "ErrFrozen"
          /\ wr'.keymap = wr.keymap /\ wr'.bb = wr.bb /\ kv' = kv
          /\ ret'.op = "DBAddKeyVals" => ret'.val[1] = 0
          /\ dbf' = dbf /\ dbf' # NoFile]_vars

\* An Add of a key the frozen database does not hold was refused.
C13_Witness ==
    /\ wr.frozen /\ dbf # NoFile
    /\ ret.op = "DBAdd" /\ ret.err = "ErrFrozen"
    /\ Cardinality(DOMAIN wr.keymap) = MaxRecords
    /\ ret.key \notin DOMAIN wr.keymap

\* C14: once Abort, or a Freeze that failed, has closed the temp file of a
\* writer that is not frozen, every Add and AddKeyVals returns an error,
\* whatever the key and the value, and leaves Len() as it was.
C14_ClosedRejects ==
    [][wr # NoWriter /\ wr.fd = "closed" /\ ~wr.frozen /\ ret'.op \in {"DBAdd", "DBAddKeyVals"} =>
          /\ ret'.err # "nil"
          /\ WriterLen(wr') = WriterLen(wr)]_vars

\* After Abort or a failed Freeze, an Add of a new key with a zero-length
\* value returned nil and the key is counted by Len().
C14_Witness ==
    /\ wr # NoWriter /\ wr.fd = "closed" /\ ~wr.frozen /\ tmpf = NoFile
    /\ ret.op = "DBAdd" /\ ret.err = "nil"
    /\ ret.key \in DOMAIN wr.keymap /\ wr.keymap[ret.key].vlen = 0
    /\ WriterLen(wr) = 1

\* C15: when NewDBWriter, Add, AddKeyVals or Freeze has failed on a write
\* or on the construction of the MPHF, and when Abort has run on a writer
\* that is not frozen, the temp file is closed and removed and there is no
\* file at the final path.
C15_ErrorCleansUp ==
    (ret.err \in {"nospace", "ErrMPHFail"} \/ (ret.op = "DBAbort" /\ ~wr.frozen)) =>
        /\ tmpf = NoFile
        /\ dbf = NoFile
        /\ wr # NoWriter => wr.fd = "closed"

\* An Add failed on the write of its record: the temp file is still there,
\* with the records written before, and the writer holds it open.
C15_Witness ==
    /\ ret.op = "DBAdd" /\ ret.err = "nospace"
    /\ wr.fd = "full" /\ tmpf # NoFile /\ Len(tmpf) > 64
    /\ dbf = NoFile

\* The file g is a complete database made of the temp file f of writer x:
\* the finalized header with the writer's salt, the records of f, zeros up
\* to the page boundary offtbl, then the two tables of nkeys entries and
\* the MPHF, and the trailer that verifyChecksum accepts.
C16_Complete(g, f, x) ==
    /\ Len(g) >= 64 + 32
    /\ SubSeq(g, 1, 8) = <<67, 72, 68, 66, 0, 0, 0, 0>>
    /\ SubSeq(g, 9, 24) = x.salt
    /\ SubSeq(g, 41, 64) = Zeros(24)
    /\ SubSeq(g, 65, Len(f)) = SubSeq(f, 65, Len(f))
    /\ IsSmall(BigEndian(SubSeq(g, 25, 32))) /\ IsSmall(BigEndian(SubSeq(g, 33, 40)))
    /\ \E n \in {ToNat(BigEndian(SubSeq(g, 25, 32)))}, o \in {ToNat(BigEndian(SubSeq(g, 33, 40)))} :
          /\ o = AlignUp(Len(f), PageSize)
          /\ SubSeq(g, Len(f) + 1, o) = Zeros(o - Len(f))
          /\ \E w \in {1, 2, 4} : Len(g) = AlignUp(o + n * 20, 8) + ChdHeaderSize + n * w + 32
          /\ verifyChecksum(g, o)

C19_Len ==
    /\ wr # NoWriter => WriterLen(wr) = Cardinality(DOMAIN kv)
    /\ rd # NoReader => ReaderLen(rd) = Cardinality(DOMAIN kv)

\* A reader is open on the database of one key, and its Len() is the
\* length of the table of the MPHF, 2.
C19_Witness ==
    /\ rd # NoReader /\ ret.op = "NewDBReader"
    /\ Cardinality(DOMAIN kv) = 1 /\ WriterLen(wr) = 1
    /\ ReaderLen(rd) = 2

\* C20: a database frozen with no key added opens without error, and
\* every Find on it returns the key-not-found error, without a panic.
C20_EmptyDB ==
    (wr.frozen /\ DOMAIN wr.keymap = {}) =>
        /\ ret.op = "NewDBReader" => ret.err = "nil" /\ rd # NoReader
        /\ ret.op = "DBFind" => ret.err = "ErrNoKey"

\* A Find on the reader of the database without keys ended in a panic.
C20_Witness ==
    /\ wr.frozen /\ DOMAIN wr.keymap = {} /\ kv = <<>>
    /\ rd # NoReader /\ ReaderLen(rd) = 0
    /\ ret.op = "DBFind" /\ ret.err = "panic"

\* The byte changed is one of the header or of what follows the page
\* boundary: the tables, the padding, the MPHF, the trailer.
FlipInMetadata ==
    /\ flip >= 1
    /\ flip <= 64 \/ flip > AlignUp(RecordsEnd(wr, DOMAIN wr.keymap), PageSize)

\* C17: NewDBReader returns a reader only on a file whose trailer is the
\* strong hash of the header followed by the bytes from offtbl to the
\* trailer; after a change of one byte of the header, the tables, the
\* padding, the MPHF or the trailer it returns an error and no reader,
\* from a check made before the region is mapped and the MPHF is
\* deserialized.
C17_Checksum ==
    ret.op = "NewDBReader" =>
        /\ ret.err = "nil" =>
              /\ rd # NoReader
              /\ Sum512_256(SubSeq(dbf, 1, 64) \o SubSeq(dbf, rd.offtbl + 1, Len(dbf) - 32))
                    = SubSeq(dbf, Len(dbf) - 31, Len(dbf))
        /\ FlipInMetadata =>
              /\ ret.err \in {"magic", "header0", "checksum"}
              /\ rd = NoReader

\* NewDBReader has refused, by the checksum, a file with a byte of the
\* padding between the tables and the MPHF changed.
C17_Witness ==
    /\ ret.op = "NewDBReader" /\ ret.err = "checksum" /\ rd = NoReader
    /\ DOMAIN kv = {64}
    /\ flip > PageSize + 20 /\ flip <= PageSize + 24
    /\ dbf[flip] # 0

\* The byte changed is one of the record of key 64, the first of the file.
FlipInRecord == flip > 64 /\ flip <= 64 + 8 + Len(kv[64])

\* C18: after a change of one byte of a record (its checksum or its
\* value), NewDBReader succeeds, the first Find of the key of the record
\* returns the corrupted-record error and no value, and Find of any other
\* key added returns the value stored for it.
C18_RecordCorrupt ==
    (FlipInRecord /\ 64 \in DOMAIN kv) =>
        /\ ret.op = "NewDBReader" => ret.err = "nil" /\ rd # NoReader
        /\ (ret.op = "DBFind" /\ ret.key = 64 /\ 64 \notin DOMAIN rd.cache) =>
              ret.err = "corrupt" /\ ret.val = <<>>
        /\ (ret.op = "DBFind" /\ ret.key \in DOMAIN kv /\ ret.key # 64) =>
              ret.err = "nil" /\ ret.val = kv[ret.key]

\* On the database of keys 64 and 1 with a byte of the record of key 64
\* changed, Find of key 1 returned the key-not-found error.
C18_Witness ==
    /\ FlipInRecord /\ DOMAIN kv = {64, 1}
    /\ rd # NoReader
    /\ ret.op = "DBFind" /\ ret.key = 1 /\ ret.err = "ErrNoKey"

\* C21: Add accepts a value of exactly 2^32 - 1 bytes and refuses one of
\* 2^32 bytes or more with ErrValueTooLarge, and no other; the refusal
\* comes before the test for a duplicate key and leaves the keys, the
\* offset and the temp file as they were.
C21_ValueTooLarge ==
    [][ret'.op = "DBAdd" =>
          /\ Less64(MaxValueLen, ret'.val) => ret'.err = "ErrValueTooLarge" /\ wr' = wr
          /\ ret'.err = "ErrValueTooLarge" => Less64(MaxValueLen, ret'.val)
          /\ (ret'.val = MaxValueLen /\ ret'.key \notin DOMAIN wr.keymap) =>
                /\ ret'.err = "nil"
                /\ DOMAIN wr'.keymap = (DOMAIN wr.keymap) \cup {ret'.key}
                /\ wr'.keymap[ret'.key] = [off |-> wr.off, vlen |-> <<255, 255, 255, 255>>]
                /\ wr'.off = Add64(wr.off, <<7, 0, 0, 0, 1, 0, 0, 0>>)
                /\ wr'.size = wr'.off]_vars

\* An Add of a value of 2^32 bytes was refused as too large for a key
\* that the writer holds with a value of 2^32 - 1 bytes.
C21_Witness ==
    /\ ret.op = "DBAdd" /\ ret.err = "ErrValueTooLarge"
    /\ ret.val = <<0, 0, 0, 0, 1, 0, 0, 0>>
    /\ ret.key \in DOMAIN wr.keymap
    /\ wr.keymap[ret.key].vlen = <<255, 255, 255, 255>>

\* C22: the slice Find returns is the caller's own copy: a store into it
\* leaves the reader as it is, and the next Find of the same key returns
\* the value of the database.
C22_PrivateCopy ==
    [][/\ ret'.op = "CallerWrite" => rd' = rd
       /\ (ret.op = "CallerWrite" /\ ret'.op = "DBFind" /\ ret'.key = ret.key) =>
              ret'.err = "nil" /\ ret'.val = kv[ret'.key]]_vars

\* A Find served from the cache returned bytes that are not the value of
\* the database, after the caller stored into the slice of an earlier
\* Find.
C22_Witness ==
    /\ rd # NoReader
    /\ ret.op = "DBFind" /\ ret.err = "nil" /\ ret.key = 64
    /\ ret.key \in DOMAIN rd.cache
    /\ ret.val # kv[ret.key] /\ ret.val = rd.cache[ret.key]

\* Find(key) on the reader r with nothing in its cache returns (e, v).
UncachedFind(r, f, key, h, e, v) ==
    \E out \in DBFind([r EXCEPT !.cache = <<>>], f, key, h) :
        out.err = e /\ out.val = v

C24_EmptyValue ==
    (DBFindRet /\ ret.key \in DOMAIN kv /\ Len(kv[ret.key]) = 0) =>
        ret.err = "nil" /\ ret.val = <<>>

\* Find of key 64, added first and with no value, read the checksum of
\* the record that follows at its offset and returned the corrupted-record
\* error.
C24_Witness ==
    /\ DBFindRet /\ ret.key = 64 /\ ret.err = "corrupt"
    /\ DOMAIN kv = {64, 1} /\ kv[64] = <<>> /\ kv[1] = <<104, 105>>
    /\ wr.keymap[64].off = 64 /\ wr.keymap[1].off = 64

\* The file f holds, from WriterChdOffset(n) of the region at o up to the
\* trailer, the image of an MPHF of n seeds.
MphfWrittenAt(f, n, o, h) ==
    \E u \in {UnmarshalBinaryMmap(ZeroChd,
                                  Slice(SubSeq(f, o + WriterChdOffset(n) + 1, Len(f) - 32),
                                        Len(f) - 32 - o - WriterChdOffset(n)),
                                  h)} :
        u.err = "nil" /\ ChdLen(u.chd) = n

\* C25: in every file Freeze writes, for every table length n, the MPHF
\* lies where Freeze puts it, after the tables and the padding, and the
\* reader starts to decode it at that same offset of the mapped region.
C25_ChdOffset ==
    (wr.frozen /\ dbf # NoFile) =>
        /\ MphfWrittenAt(dbf, ToNat(BigEndian(SubSeq(dbf, 25, 32))),
                         ToNat(BigEndian(SubSeq(dbf, 33, 40))), host)
        /\ ReaderChdOffset(ToNat(BigEndian(SubSeq(dbf, 25, 32))))
              = WriterChdOffset(ToNat(BigEndian(SubSeq(dbf, 25, 32))))

\* NewDBReader failed to unmarshal the MPHF of a database with a table of
\* one entry, which Freeze wrote at offset 24 of the region and the reader
\* takes at offset 20.
C25_Witness ==
    /\ wr.frozen /\ dbf # NoFile /\ rd = NoReader
    /\ ret.op = "NewDBReader" /\ ret.err = "unmarshal"
    /\ BigEndian(SubSeq(dbf, 25, 32)) = U64(1)
    /\ MphfWrittenAt(dbf, 1, PageSize, host)
    /\ WriterChdOffset(1) = 24 /\ ReaderChdOffset(1) = 20

\* The file f is one NewDBReader has to refuse: shorter than 96 bytes,
\* without the magic, with offtbl outside [64, size - 32), or with a
\* region from offtbl to the trailer that cannot hold the two tables of
\* nkeys entries and the 16 bytes of the header of the MPHF.
C26_Malformed(f) ==
    \/ Len(f) < 64 + 32
    \/ SubSeq(f, 1, 4) # <<67, 72, 68, 66>>
    \/ ~IsSmall(BigEndian(SubSeq(f, 33, 40)))
    \/ ToNat(BigEndian(SubSeq(f, 33, 40))) < 64
    \/ ToNat(BigEndian(SubSeq(f, 33, 40))) >= Len(f) - 32
    \/ ~IsSmall(BigEndian(SubSeq(f, 25, 32)))
    \/ Len(f) - 32 - ToNat(BigEndian(SubSeq(f, 33, 40)))
          < ToNat(BigEndian(SubSeq(f, 25, 32))) * 20 + ChdHeaderSize

\* C26: on every such file NewDBReader returns an error and no reader; it
\* does not end in a panic on a slice beyond the mapped region, also when
\* the trailer is the digest of the content.
C26_MalformedRefused ==
    (ret.op = "NewDBReader" /\ ret.err # "none" /\ C26_Malformed(dbf)) =>
        /\ ret.err \notin {"nil", "panic"}
        /\ rd = NoReader

\* NewDBReader ended in a panic on a file of 96 bytes and more with the
\* magic, offtbl at the page size, a trailer that verifies, nkeys = 1 and
\* a region of 10 bytes, which cannot hold the 16 bytes of the offset
\* table.
C26_Witness ==
    /\ ret.op = "NewDBReader" /\ ret.err = "panic" /\ rd = NoReader
    /\ Len(dbf) = PageSize + 10 + 32
    /\ SubSeq(dbf, 1, 4) = <<67, 72, 68, 66>>
    /\ BigEndian(SubSeq(dbf, 25, 32)) = U64(1)
    /\ BigEndian(SubSeq(dbf, 33, 40)) = U64(PageSize)
    /\ verifyChecksum(dbf, PageSize)

(***************************************************************************)
(* Properties of the seed loop of Freeze                                   *)
(***************************************************************************)

\* The cells the keys ks fall on under seed s in a table of m cells.
CellsOf(ks, s, m, slt) == {ToNat(rhash(s, ks[i], m, slt)) : i \in 1..Len(ks)}

\* Seed s places the keys ks on pairwise distinct cells outside occ.
Fits(ks, s, m, slt, occ) ==
    /\ Cardinality(CellsOf(ks, s, m, slt)) = Len(ks)
    /\ CellsOf(ks, s, m, slt) \cap occ = {}

\* The cells taken by the buckets o[1..i-1] under the seeds of the table.
OccBefore(o, i, bkeys, seeds, m, slt) ==
    UNION {CellsOf(bkeys[o[j] + 1], seeds[o[j] + 1], m, slt) : j \in 1..(i - 1)}

\* The seed of the bucket o[i] is the least seed from 1 on that fits its
\* keys into the cells the buckets before it left free.
FirstFit(o, i, bkeys, seeds, m, slt) ==
    /\ seeds[o[i] + 1] \in 1..(MaxSeed - 1)
    /\ Fits(bkeys[o[i] + 1], seeds[o[i] + 1], m, slt,
            OccBefore(o, i, bkeys, seeds, m, slt))
    /\ \A t \in 1..(seeds[o[i] + 1] - 1) :
           ~Fits(bkeys[o[i] + 1], t, m, slt, OccBefore(o, i, bkeys, seeds, m, slt))

\* The table of seeds is what first fit leaves for some sorted order of the
\* buckets that hold keys.
FirstFitTable(bkeys, seeds, m, slt) ==
    \E o \in SortedOrders(FullSlots(bkeys), bkeys) :
        \A i \in 1..Len(o) : FirstFit(o, i, bkeys, seeds, m, slt)

CommittedAtSlot(o, i, bkeys, seeds, m, slt) ==
    TrySeeds(bkeys[o[i] + 1], 1, m, slt, OccBefore(o, i, bkeys, seeds, m, slt)).seed
        = seeds[o[i] + 1]

\* C28: after a Freeze that returned a Chd, the seed at the slot of every
\* bucket that holds keys is the seed that was committed for that bucket,
\* and the cells of the buckets are apart: neither the commit of another
\* bucket nor the turn of a bucket without keys has changed them.
C28_SeedsBySlot ==
    (ret.op = "Freeze" /\ ret.err = "nil") =>
        /\ \E o \in SortedOrders(FullSlots(Buckets(data, salt, ChdLen(chd))),
                                 Buckets(data, salt, ChdLen(chd))) :
               \A i \in 1..Len(o) :
                   CommittedAtSlot(o, i, Buckets(data, salt, ChdLen(chd)),
                                   chd.seed.seeds, ChdLen(chd), salt)
        /\ \A j, l \in FullSlots(Buckets(data, salt, ChdLen(chd))) :
               j # l =>
                   CellsOf(Buckets(data, salt, ChdLen(chd))[j + 1],
                           chd.seed.seeds[j + 1], ChdLen(chd), salt)
                   \cap CellsOf(Buckets(data, salt, ChdLen(chd))[l + 1],
                                chd.seed.seeds[l + 1], ChdLen(chd), salt) = {}

\* A Freeze that committed a seed above 1 for the bucket of slot 0 and went
\* on to at least one bucket without keys.
C28_Witness ==
    /\ ret.op = "Freeze" /\ ret.err = "nil"
    /\ ChdLen(chd) >= 2
    /\ Len(Buckets(data, salt, ChdLen(chd))[1]) > 0
    /\ chd.seed.seeds[1] > 1
    /\ EmptySlots(Buckets(data, salt, ChdLen(chd))) # {}

(***************************************************************************)
(* Properties of the width of the seeds                                    *)
(***************************************************************************)

\* The bytes per seed a table whose largest seed is max asks for.
WidthFor(max) == IF max < 256 THEN 1 ELSE IF max < 65536 THEN 2 ELSE 4

\* The Chd is the one Freeze returns for the committed seeds, and it holds
\* them at the width of the largest, each with its value.
KeepsSeeds(c, seeds, slt) ==
    c = Frozen(seeds, slt).chd =>
        /\ SeedSize(c) = WidthFor(SeqMax(seeds, 1))
        /\ ChdLen(c) = Len(seeds)
        /\ \A j \in 1..Len(seeds) : c.seed.seeds[j] = seeds[j]

\* C29: the table of a frozen Chd has 1 byte per seed when the largest
\* committed seed is below 256, 2 bytes when it is below 65536 and 4 bytes
\* otherwise, and holds at every slot the seed that was committed there.
C29_SeedWidth ==
    /\ \E seeds \in SeedTables : chd = Frozen(seeds, salt).chd
    /\ \A seeds \in SeedTables : KeepsSeeds(chd, seeds, salt)

\* A Chd whose seed is the largest that 2 bytes hold, held in 2 bytes, and
\* marshalled.
C29_Witness ==
    /\ chd.seed.seeds = <<MaxU16>>
    /\ SeedSize(chd) = 2
    /\ ret.op = "Marshal"

(***************************************************************************)
(* Find called by several goroutines on one reader (dbreader.go)           *)
(***************************************************************************)

\* The databases the goroutines read: the one of CacheDBs with two keys,
\* each the offset of its record and with a value of 2 bytes, so that every
\* Find of a key succeeds when no other Find runs.
ConcDBs ==
    {db \in CacheDBs :
        Len(db.keys) = 2 /\ \A i \in 1..Len(db.vals) : Len(db.vals[i]) = 2}

InitConc ==
    \E db \in ConcDBs, s \in WriterSalts, slt \in DBSalts :
        \E akv \in {DBAddKeyVals(NewDBWriter(s, slt), Zeros(64), NoFile, db.keys, db.vals)} :
            \E out \in DBFreeze(akv.wr, akv.tmp, NoFile, db.load, "little") :
                FrozenDB(db, akv, out)

\* Find up to the call of decodeRecord, i being the slot of the key: the
\* error, or the offset and the length read from the tables.
findOffset(r, key, i, h) ==
    IF i.panic \/ 2 * i.val >= Len(r.offset)
    THEN [err |-> "panic", off |-> Zero64, vlen |-> 0]
    ELSE IF toLittleEndianUint64(r.offset[2 * i.val + 1], h) # U64(key)
    THEN [err |-> "ErrNoKey", off |-> Zero64, vlen |-> 0]
    ELSE IF i.val >= Len(r.vlen) \/ 2 * i.val + 1 >= Len(r.offset)
    THEN [err |-> "panic", off |-> Zero64, vlen |-> 0]
    ELSE [err |-> "nil",
          off |-> toLittleEndianUint64(r.offset[2 * i.val + 2], h),
          vlen |-> toLittleEndianUint32(r.vlen[i.val + 1], h)]

\* A goroutine whose Find(key) has returned e and v.
Returned(key, e, v) == [IdleCall EXCEPT !.pc = "done", !.key = key, !.err = e, !.val = v]

\* A goroutine whose Find(key) is about to call decodeRecord(t.off, t.vlen),
\* or has returned the error of the tables.
Looked(key, t) ==
    IF t.err # "nil" THEN Returned(key, t.err, <<>>)
    ELSE [IdleCall EXCEPT !.pc = "seek", !.key = key, !.off = t.off, !.vlen = t.vlen]

\* Goroutine g calls Find(key) for a key of the database: the test of the
\* cache and, on a miss, the tables (which are mapped and never written).
FindCall(g) ==
    \E key \in DOMAIN kv :
        /\ rd # NoReader
        /\ calls[g].pc \in {"idle", "done"}
        /\ calls' = [calls EXCEPT ![g] =
                        IF key \in DOMAIN rd.cache
                        THEN Returned(key, "nil", rd.cache[key])
                        ELSE Looked(key, findOffset(rd, key, Find(rd.chd, key), host))]
        /\ UNCHANGED <<wr, tmpf, dbf, rd, kv, dup, flip, fpos, ret,
                       chdIdleVars, codecVars>>

\* rd.fd.Seek(int64(off), 0) of goroutine g
FindSeek(g) ==
    /\ calls[g].pc = "seek"
    /\ IF ~IsSmall(calls[g].off)
       THEN /\ calls' = [calls EXCEPT ![g] = Returned(calls[g].key, "io", <<>>)]
            /\ fpos' = fpos
       ELSE /\ calls' = [calls EXCEPT ![g].pc = "read"]
            /\ fpos' = ToNat(calls[g].off)
    /\ UNCHANGED <<wr, tmpf, dbf, rd, kv, dup, flip, ret, chdIdleVars, codecVars>>

\* io.ReadFull(rd.fd, data) of goroutine g, data of vlen + 8 bytes: the
\* bytes of the file from its offset on, which moves by what is read.
FindRead(g) ==
    /\ calls[g].pc = "read"
    /\ IF fpos + calls[g].vlen + 8 > Len(dbf)
       THEN /\ calls' = [calls EXCEPT ![g] = Returned(calls[g].key, "io", <<>>)]
            /\ fpos' = Len(dbf)
       ELSE /\ calls' = [calls EXCEPT ![g].pc = "check",
                                     ![g].data = SubSeq(dbf, fpos + 1,
                                                        fpos + calls[g].vlen + 8)]
            /\ fpos' = fpos + calls[g].vlen + 8
    /\ UNCHANGED <<wr, tmpf, dbf, rd, kv, dup, flip, ret, chdIdleVars, codecVars>>

\* The rest of decodeRecord and of Find for goroutine g: the test of the
\* checksum, rd.cache.Add and the return.
FindReturn(g) ==
    /\ calls[g].pc = "check"
    /\ \E out \in findRecord(rd, calls[g].key,
                             checkRecord(rd.salt, calls[g].off, calls[g].data)) :
        /\ rd' = out.rd
        /\ calls' = [calls EXCEPT ![g] = Returned(calls[g].key, out.err, out.val)]
        /\ ret' = Ret("DBFind", calls[g].key, NoLoad, out.err, out.val)
    /\ UNCHANGED <<wr, tmpf, dbf, kv, dup, flip, fpos, chdIdleVars, codecVars>>

NextConc ==
    \/ OpenCache
    \/ \E g \in Goroutines : FindCall(g)
    \/ \E g \in Goroutines : FindSeek(g)
    \/ \E g \in Goroutines : FindRead(g)
    \/ \E g \in Goroutines : FindReturn(g)

SpecConc == InitConc /\ [][NextConc]_vars

\* C23: Find calls that run at the same time on one reader, for keys of the
\* database, each return the value stored for their key and no error,
\* however their seeks and reads of the one open file interleave.
C23_ConcurrentFinds ==
    \A g \in Goroutines :
        calls[g].pc = "done" =>
            calls[g].err = "nil" /\ calls[g].val = kv[calls[g].key]

\* A Find of a key of the database has returned the error of a corrupted
\* record while another Find was between its Seek and its return.
C23_Witness ==
    \E g, o \in Goroutines :
        /\ g # o
        /\ calls[g].pc = "done" /\ calls[g].err = "corrupt"
        /\ calls[g].key \in DOMAIN kv
        /\ calls[o].pc \in {"read", "check", "done"}
        /\ calls[o].key # calls[g].key

=============================================================================
